---- MODULE Spec2Model ----
(***************************************************************************)
(* Model of the OpenMachineCore workflow core: the workflow engine         *)
(* (internal/workflow/engine/engine.go), the step executor                 *)
(* (internal/workflow/executor/executor.go), the event streamer            *)
(* (package streaming), the execution tables of the storage layer          *)
(* (internal/storage/models.go), the machine controller (package machine)  *)
(* and the workflow validator (package workflow).                          *)
(*                                                                         *)
(* Every goroutine is cut at its suspension points (storage calls, the     *)
(* executor call, lock acquisitions); each piece is one action.            *)
(***************************************************************************)
EXTENDS Integers, Sequences, FiniteSets, TLC

\* ------------------------------------------------------------------ bounds
\* number of executions the engine is asked to start
MaxExec == 1
\* number of subscriber channels ever created by Subscribe
MaxSubs == 2
\* capacity of a subscriber channel; the source makes it 100
\* (streaming.Subscribe), the model scales it so that a full buffer happens
ChanCap == 2
\* deepest nesting of sub-workflow calls the executor model follows
MaxDepth == 2
\* number of executions the machine controller starts
MaxMachineExec == 3
\* number of machine commands handled at the same time
MaxHandlers == 2
\* number of steps of a workflow the validator is given
MaxRefs == 2
\* number of storage calls that fail during one validation
MaxFaults == 1

ExecIDs == 1..MaxExec
ChanIDs == 1..MaxSubs
MachineExecIDs == 1..MaxMachineExec
Handlers == 1..MaxHandlers

\* ------------------------------------------------- workflow definitions
\* constructors of definition.Step values (timeout 0 on device and workflow
\* steps, so no step-local deadline is derived)
DeviceStep(num, name, out) ==
    [type |-> "device", number |-> num, name |-> name, result |-> out,
     workflow_id |-> "none"]

WaitStep(num, name) ==
    [type |-> "wait", number |-> num, name |-> name, result |-> "nil",
     workflow_id |-> "none"]

WorkflowStep(num, name, wid) ==
    [type |-> "workflow", number |-> num, name |-> name, result |-> "nil",
     workflow_id |-> wid]

\* the workflows configured for the machine controller (SetWorkflows)
homeWorkflowID == "wHome"

productionWorkflowID == "wProd"

stopWorkflowID == "wStop"

MachineWorkflows == {homeWorkflowID, productionWorkflowID, stopWorkflowID}

\* rows of the workflows table
StoredWorkflows ==
    {"wMain", "wOuter", "wSub", "wRec", "wEmpty", "wBad"} \cup MachineWorkflows

\* ids a client of the engine API may pass to ExecuteWorkflow; "wMissing"
\* has no row
WorkflowIDs == (StoredWorkflows \ MachineWorkflows) \cup {"wMissing"}

\* definition.ParseWorkflow succeeds on the stored definition blob
ParseWorkflowOK(w) == w # "wBad"

\* the parsed definition of a stored workflow
ParseWorkflow(w) ==
    CASE w = "wMain"  -> [program_name |-> "main",
                          steps |-> << DeviceStep("10", "read", "r1"),
                                       WaitStep("20", "pause") >>]
      [] w = "wOuter" -> [program_name |-> "outer",
                          steps |-> << WorkflowStep("10", "call", "wSub"),
                                       DeviceStep("20", "write", "r2"),
                                       WorkflowStep("30", "skip", "wEmpty") >>]
      [] w = "wSub"   -> [program_name |-> "sub",
                          steps |-> << DeviceStep("5", "pick", "r3"),
                                       WaitStep("5", "settle") >>]
      [] w = "wRec"   -> [program_name |-> "rec",
                          steps |-> << WorkflowStep("1", "again", "wRec") >>]
      [] w = "wHome"  -> [program_name |-> "home",
                          steps |-> << DeviceStep("1", "reference", "r1") >>]
      [] w = "wProd"  -> [program_name |-> "production",
                          steps |-> << WaitStep("1", "cycle") >>]
      [] w = "wStop"  -> [program_name |-> "stop",
                          steps |-> << DeviceStep("1", "park", "r2") >>]
      [] OTHER        -> [program_name |-> "empty", steps |-> << >>]

\* inputs a caller may pass to ExecuteWorkflow
Inputs == {"in0"}

\* ------------------------------------------------------------ state
VARIABLES
    nextExec,          \* next execution id (uuid.New in ExecuteWorkflow)
    dbExec,            \* workflow_executions rows, by execution id
    dbSteps,           \* execution_steps rows, by execution id
    dbEvents,          \* execution_events rows, by execution id
    execMem,           \* the runner's *storage.WorkflowExecution
    execWf,            \* workflowDef handed to the runner
    execInput,         \* input handed to the runner
    ctxDone,           \* the execution's context has been cancelled
    runningContexts,   \* keys of Engine.runningContexts
    executionTrackers, \* keys of Engine.executionTrackers
    trackerStack,      \* ExecutionTracker.CallStack
    pc,                \* position of the runner goroutine
    idx,               \* loop index of runExecution
    xstack,            \* executor frames of nested executeWorkflowStep calls
    xres,              \* value returned by executor.Execute to executeStep
    published,         \* events handed to streamer.Broadcast by publishEvent
    wsLog,             \* messages handed to wsHub.Broadcast
    subscribers,       \* EventStreamer.subscribers
    chanState,         \* a subscriber channel: unused, open or closed
    chanBuf,           \* buffered events of a subscriber channel
    cancelPending,     \* CancelExecution calls between lookup and cancel()
    ret,               \* what the API call made in the last step returned
    recvIndex,         \* where in the events broadcast for its execution the
                       \* event last received from a channel stands
    chanExec,          \* the execution a subscriber channel was created for
    closedAt,          \* how many events had been broadcast for its execution
                       \* when a channel was closed (-1: not closed)
    reqCtx,            \* the request context ExecuteWorkflow was called with,
                       \* once the call returned the execution's id
    currentState,      \* Controller.currentState
    currentExecID,     \* Controller.currentExecID (0 is uuid.Nil)
    productionCycles,  \* Controller.productionCycles
    errorMessage,      \* Controller.errorMessage
    mu,                \* holder of Controller.mu between two steps
    hcmd,              \* the command an ExecuteCommand call is handling
    hpc,               \* position of an ExecuteCommand call
    hexec,             \* execID local of an ExecuteCommand call
    monPc,             \* position of the observer goroutine of an execution
    monTarget,         \* targetState of a monitorWorkflow goroutine
    lastHome,          \* the execution of the home command accepted last:
                       \* -h while call h has not created it, 0 for none
    lastStart,         \* the same for the start command accepted last
    cycleOwner,        \* the command that changed the state last: -h while
                       \* call h has not created its execution, then the
                       \* execution; 0 at first and after a reset
    valStore,          \* the workflows table the validator reads
    valRoot,           \* workflowID argument of ValidateByID
    valPc,             \* position of the ValidateByID call
    walkCache,         \* keys of walkState.cache
    walkVisiting,      \* ids with walkState.visiting[id] = true
    walkDone,          \* ids with walkState.done[id] = true
    walkStack,         \* walkState.stack
    walkIdx,           \* loop index i of each validateWorkflow in progress
    report,            \* the Report being built
    valRet,            \* what ValidateByID returned
    valFaults,         \* storage calls of the validator that have failed
    validated,         \* ids validateWorkflow was entered for, in order
    prevReport         \* the report of an earlier ValidateByID call on the
                       \* same tables, NoReport when there was none

vars == << nextExec, dbExec, dbSteps, dbEvents, execMem, execWf, execInput,
           ctxDone, runningContexts, executionTrackers, trackerStack, pc,
           idx, xstack, xres, published, wsLog, subscribers, chanState,
           chanBuf, cancelPending, ret, recvIndex, chanExec, closedAt, reqCtx, currentState,
           currentExecID, productionCycles, errorMessage, mu, hcmd, hpc,
           hexec, monPc, monTarget, lastHome, lastStart, cycleOwner, valStore, valRoot, valPc, walkCache,
           walkVisiting, walkDone, walkStack, walkIdx, report, valRet,
           valFaults, validated, prevReport >>

engineVars == << nextExec, dbExec, dbSteps, dbEvents, execMem, execWf,
                 execInput, ctxDone, runningContexts, executionTrackers,
                 trackerStack, pc, idx, xstack, xres, published, wsLog,
                 cancelPending >>

streamVars == << subscribers, chanState, chanBuf >>

histVars == << recvIndex, chanExec, closedAt, reqCtx >>

lastVars == << lastHome, lastStart, cycleOwner >>

machineVars == << currentState, currentExecID, productionCycles, errorMessage,
                  mu, hcmd, hpc, hexec, monPc, monTarget, lastVars >>

validatorVars == << valStore, valRoot, valPc, walkCache, walkVisiting,
                   walkDone, walkStack, walkIdx, report, valRet, valFaults,
                   validated, prevReport >>

restVars == << machineVars, validatorVars >>

otherVars == << histVars, machineVars, validatorVars >>

\* ------------------------------------------------------------ values
NoError == << >>

TerminalStatus == {"success", "failed", "cancelled"}

\* an empty workflow_executions slot / zero-valued WorkflowExecution
NoExec ==
    [status |-> "none", input |-> "nil", output |-> "nil", error |-> NoError,
     completed_at |-> FALSE, current_step_id |-> "", call_stack |-> << >>]

NoResult == [state |-> "none", output |-> "nil", error |-> NoError]

NoRet == [op |-> "none", id |-> 0, err |-> "none"]

\* a leaf error returned by a step, and the wrapping done by
\* executeWorkflowStep: "sub-workflow step %d (%s) failed: %w"
LeafError(msg) == << [msg |-> msg, idx |-> -1, name |-> ""] >>

WrapSubError(i, name, err) ==
    << [msg |-> "sub-workflow step failed", idx |-> i, name |-> name] >> \o err

\* an execution event as built by publishEvent
Event(type, i, name, output, error) ==
    [type |-> type, step_index |-> i, step_name |-> name, output |-> output,
     error |-> error]

\* ------------------------------------------------------------ tracker
\* ExecutionTracker.Push
Push(stack, wid, programName, stepNumber) ==
    Append(stack, [workflow_id |-> wid, program_name |-> programName,
                   step_number |-> stepNumber])

\* ExecutionTracker.SetCurrentStep: overwrite the top frame's step number
SetCurrentStep(stack, stepNumber) ==
    IF Len(stack) > 0
    THEN [stack EXCEPT ![Len(stack)].step_number = stepNumber]
    ELSE stack

\* the parts list of BuildHierarchicalStepID: program name and "S"+number
\* of every frame, root first
RECURSIVE HierarchicalParts(_)
HierarchicalParts(stack) ==
    IF Len(stack) = 0
    THEN << >>
    ELSE << stack[1].program_name, "S" \o stack[1].step_number >>
         \o HierarchicalParts(Tail(stack))

\* the join loop of BuildHierarchicalStepID
RECURSIVE JoinParts(_, _)
JoinParts(parts, i) ==
    IF i > Len(parts) THEN ""
    ELSE IF i = 1 THEN parts[1] \o JoinParts(parts, 2)
    ELSE ":" \o parts[i] \o JoinParts(parts, i + 1)

BuildHierarchicalStepID(stack) ==
    IF Len(stack) = 0 THEN "" ELSE JoinParts(HierarchicalParts(stack), 1)

\* ------------------------------------------------------------ storage
\* A pgx pool call made with a cancelled context returns the context's
\* error and writes nothing; the engine ignores the error.

\* UpdateExecution with completed_at left out of the SET list
UpdateExecution_NoCompletedAt(db, e, rec, done) ==
    IF done \/ db[e].status = "none"
    THEN db
    ELSE [db EXCEPT ![e].status = rec.status,
                    ![e].output = rec.output,
                    ![e].error = rec.error]

\* PostgresClient.UpdateExecution: status, output, error, completed_at
UpdateExecution(db, e, rec, done) ==
    IF done \/ db[e].status = "none"
    THEN db
    ELSE [db EXCEPT ![e].status = rec.status,
                    ![e].output = rec.output,
                    ![e].error = rec.error,
                    ![e].completed_at = rec.completed_at]

\* PostgresClient.CreateExecutionStep: the INSERT names id, execution_id,
\* step_index, step_name, status, input and started_at; hierarchical_step_id
\* and depth of the row keep the defaults of their columns (NULL and 0)
CreateExecutionStep(rows, e, row, done) ==
    IF done
    THEN rows
    ELSE [rows EXCEPT ![e] =
            Append(@, [row EXCEPT !.hierarchical_step_id = "", !.depth = 0])]

\* PostgresClient.UpdateExecutionStep: the row of this step, if it exists
UpdateExecutionStep(rows, e, i, status, output, error, done) ==
    IF done
    THEN rows
    ELSE [rows EXCEPT ![e] =
            [k \in 1..Len(@) |->
                IF @[k].step_index = i
                THEN [@[k] EXCEPT !.status = status, !.output = output,
                                  !.error = error, !.completed_at = TRUE]
                ELSE @[k]]]

\* PostgresClient.CreateExecutionEvent
CreateExecutionEvent(rows, e, ev, done) ==
    IF done THEN rows ELSE [rows EXCEPT ![e] = Append(@, ev)]

\* ------------------------------------------------------------ streamer
InSeq(x, s) == \E k \in 1..Len(s) : s[k] = x

\* remove the element at position k (append(subs[:i], subs[i+1:]...))
RemoveAt(s, k) == [j \in 1..(Len(s) - 1) |-> IF j < k THEN s[j] ELSE s[j + 1]]

\* Broadcast that gives up at the first subscriber whose buffer is full
Broadcast_StopAtFull(bufs, subs, e, ev) ==
    [c \in ChanIDs |->
        IF /\ InSeq(c, subs[e])
           /\ \A k \in 1..Len(subs[e]) :
                  Len(bufs[subs[e][k]]) >= ChanCap =>
                      \E m \in 1..(k - 1) : subs[e][m] = c
        THEN Append(bufs[c], ev)
        ELSE bufs[c]]

\* EventStreamer.Broadcast: a non-blocking send to every subscriber of e
Broadcast(bufs, subs, e, ev) ==
    [c \in ChanIDs |->
        IF InSeq(c, subs[e]) /\ Len(bufs[c]) < ChanCap
        THEN Append(bufs[c], ev)
        ELSE bufs[c]]

\* EventStreamer.Subscribe: a fresh channel appended to the list of e
Subscribe(e) ==
    /\ ret' = NoRet
    /\ \E c \in ChanIDs :
        /\ chanState[c] = "unused"
        /\ \A d \in ChanIDs : d < c => chanState[d] # "unused"
        /\ chanState' = [chanState EXCEPT ![c] = "open"]
        /\ subscribers' = [subscribers EXCEPT ![e] = Append(@, c)]
        /\ chanExec' = [chanExec EXCEPT ![c] = e]
    /\ UNCHANGED << chanBuf, recvIndex, closedAt, reqCtx, engineVars,
                    restVars >>

\* Unsubscribe that removes the handle and leaves it open
Unsubscribe_NoClose(e, c) ==
    /\ ret' = NoRet
    /\ chanState[c] # "unused"
    /\ IF InSeq(c, subscribers[e])
       THEN LET k == CHOOSE j \in 1..Len(subscribers[e]) :
                        /\ subscribers[e][j] = c
                        /\ \A m \in 1..(j - 1) : subscribers[e][m] # c
            IN subscribers' = [subscribers EXCEPT ![e] = RemoveAt(@, k)]
       ELSE UNCHANGED subscribers
    /\ UNCHANGED << chanState, chanBuf, histVars, engineVars, restVars >>

\* Unsubscribe that closes the handle and leaves it in the list
Unsubscribe_KeepEntry(e, c) ==
    /\ ret' = NoRet
    /\ chanState[c] # "unused"
    /\ IF InSeq(c, subscribers[e])
       THEN /\ chanState' = [chanState EXCEPT ![c] = "closed"]
            /\ chanBuf' = [chanBuf EXCEPT ![c] = << >>]
            /\ recvIndex' = [recvIndex EXCEPT ![c] = 0]
            /\ closedAt' = [closedAt EXCEPT ![c] = Len(published[e])]
            /\ UNCHANGED subscribers
       ELSE UNCHANGED << subscribers, chanState, chanBuf, recvIndex,
                         closedAt >>
    /\ UNCHANGED << chanExec, reqCtx, engineVars, restVars >>

\* EventStreamer.Unsubscribe: remove the first match and close it.  Its
\* caller is the consumer, which has returned: what the closed channel still
\* buffers is garbage and is dropped with it.
Unsubscribe(e, c) ==
    /\ ret' = NoRet
    /\ chanState[c] # "unused"
    /\ IF InSeq(c, subscribers[e])
       THEN LET k == CHOOSE j \in 1..Len(subscribers[e]) :
                        /\ subscribers[e][j] = c
                        /\ \A m \in 1..(j - 1) : subscribers[e][m] # c
            IN /\ subscribers' = [subscribers EXCEPT ![e] = RemoveAt(@, k)]
               /\ chanState' = [chanState EXCEPT ![c] = "closed"]
               /\ chanBuf' = [chanBuf EXCEPT ![c] = << >>]
               /\ recvIndex' = [recvIndex EXCEPT ![c] = 0]
               /\ closedAt' = [closedAt EXCEPT ![c] = Len(published[e])]
       ELSE UNCHANGED << subscribers, chanState, chanBuf, recvIndex,
                         closedAt >>
    /\ UNCHANGED << chanExec, reqCtx, engineVars, restVars >>

\* the index of the first occurrence of ev after position k in the events
\* broadcast for execution e, or -1 when there is none (or an earlier
\* received event already had none)
NextOccurrence(e, k, ev) ==
    LET later == {j \in 1..Len(published[e]) : j > k /\ published[e][j] = ev}
    IN IF k < 0 \/ later = {}
       THEN -1
       ELSE CHOOSE j \in later : \A m \in later : j <= m

\* a consumer that takes the newest buffered event instead of the oldest
Receive_TakeNewest(c) ==
    /\ ret' = NoRet
    /\ chanState[c] = "open"
    /\ Len(chanBuf[c]) > 0
    /\ recvIndex' = [recvIndex EXCEPT ![c] =
           NextOccurrence(chanExec[c], @, chanBuf[c][Len(chanBuf[c])])]
    /\ chanBuf' = [chanBuf EXCEPT ![c] = SubSeq(@, 1, Len(@) - 1)]
    /\ UNCHANGED << subscribers, chanState, chanExec, closedAt, reqCtx, engineVars,
                    restVars >>

\* the consumer of a receive handle takes the oldest buffered event
\* (WorkflowService.StreamExecutionStatus, event := <-eventCh); its deferred
\* Unsubscribe runs when it has returned, so it never receives after it
Receive(c) ==
    /\ ret' = NoRet
    /\ chanState[c] = "open"
    /\ Len(chanBuf[c]) > 0
    /\ recvIndex' = [recvIndex EXCEPT ![c] =
           NextOccurrence(chanExec[c], @, Head(chanBuf[c]))]
    /\ chanBuf' = [chanBuf EXCEPT ![c] = Tail(@)]
    /\ UNCHANGED << subscribers, chanState, chanExec, closedAt, reqCtx, engineVars,
                    restVars >>

\* Engine.publishEvent: durable write, then broadcast
publishEvent(e, ev) ==
    LET event == [execution_id |-> e] @@ ev
    IN /\ dbEvents' = CreateExecutionEvent(dbEvents, e, event, ctxDone[e])
       /\ published' = [published EXCEPT ![e] = Append(@, event)]
       /\ chanBuf' = Broadcast(chanBuf, subscribers, e, event)

\* ------------------------------------------------------------ engine
\* the zero-valued Report (rep := Report{})
NoReport == [valid |-> FALSE, errors |-> << >>, warnings |-> << >>]

\* no ValidateByID call in progress, over the workflows table store
ValidatorInit(store, root) ==
    /\ valStore = store
    /\ valRoot = root
    /\ valPc = "idle"
    /\ walkCache = {}
    /\ walkVisiting = {}
    /\ walkDone = {}
    /\ walkStack = << >>
    /\ walkIdx = << >>
    /\ report = NoReport
    /\ valRet = "none"
    /\ valFaults = 0
    /\ validated = << >>
    /\ prevReport = NoReport

\* the state after construction, for execution ids drawn from ids:
\* NewEngine, NewEventStreamer and NewController
InitOver(ids) ==
    /\ nextExec = 1
    /\ dbExec = [e \in ids |-> NoExec]
    /\ dbSteps = [e \in ids |-> << >>]
    /\ dbEvents = [e \in ids |-> << >>]
    /\ execMem = [e \in ids |-> NoExec]
    /\ execWf = [e \in ids |-> "none"]
    /\ execInput = [e \in ids |-> "nil"]
    /\ ctxDone = [e \in ids |-> FALSE]
    /\ runningContexts = {}
    /\ executionTrackers = {}
    /\ trackerStack = [e \in ids |-> << >>]
    /\ pc = [e \in ids |-> "idle"]
    /\ idx = [e \in ids |-> 0]
    /\ xstack = [e \in ids |-> << >>]
    /\ xres = [e \in ids |-> NoResult]
    /\ published = [e \in ids |-> << >>]
    /\ wsLog = [e \in ids |-> << >>]
    /\ subscribers = [e \in ids |-> << >>]
    /\ chanState = [c \in ChanIDs |-> "unused"]
    /\ chanBuf = [c \in ChanIDs |-> << >>]
    /\ cancelPending = {}
    /\ ret = NoRet
    /\ recvIndex = [c \in ChanIDs |-> 0]
    /\ chanExec = [c \in ChanIDs |-> 0]
    /\ closedAt = [c \in ChanIDs |-> -1]
    /\ reqCtx = [e \in ids |-> "none"]
    /\ currentState = "stopped"
    /\ currentExecID = 0
    /\ productionCycles = 0
    /\ errorMessage = NoError
    /\ mu = 0
    /\ hcmd = [h \in Handlers |-> "none"]
    /\ hpc = [h \in Handlers |-> "idle"]
    /\ hexec = [h \in Handlers |-> 0]
    /\ monPc = [e \in ids |-> "none"]
    /\ monTarget = [e \in ids |-> "none"]
    /\ lastHome = 0
    /\ lastStart = 0
    /\ cycleOwner = 0

Init == InitOver(ExecIDs) /\ ValidatorInit(<< >>, "none")

\* ExecuteWorkflow that inserts the execution record before loading W
ExecuteWorkflow_CreateFirst(w, input) ==
    /\ nextExec \in DOMAIN dbExec
    /\ LET e == nextExec
           exec == [NoExec EXCEPT !.status = "pending", !.input = input]
       IN /\ nextExec' = nextExec + 1
          /\ dbExec' = [dbExec EXCEPT ![e] = exec]
          /\ IF w \notin StoredWorkflows \/ ~ParseWorkflowOK(w)
             THEN /\ ret' = [op |-> "execute", id |-> 0,
                             err |-> IF w \notin StoredWorkflows
                                     THEN "load" ELSE "parse"]
                  /\ UNCHANGED << execMem, execWf, execInput, runningContexts,
                                  executionTrackers, trackerStack, pc, wsLog,
                                  reqCtx >>
             ELSE /\ execMem' = [execMem EXCEPT ![e] = exec]
                  /\ reqCtx' = [reqCtx EXCEPT ![e] = "live"]
                  /\ execWf' = [execWf EXCEPT ![e] = w]
                  /\ execInput' = [execInput EXCEPT ![e] = input]
                  /\ wsLog' = [wsLog EXCEPT ![e] =
                         Append(@, "workflow_started")]
                  /\ trackerStack' = [trackerStack EXCEPT ![e] =
                         Push(<< >>, w, ParseWorkflow(w).program_name, "0")]
                  /\ runningContexts' = runningContexts \cup {e}
                  /\ executionTrackers' = executionTrackers \cup {e}
                  /\ pc' = [pc EXCEPT ![e] = "spawned"]
                  /\ ret' = [op |-> "execute", id |-> e, err |-> "none"]
    /\ UNCHANGED << dbSteps, dbEvents, ctxDone, idx, xstack, xres, published,
                    cancelPending, streamVars, recvIndex, chanExec, closedAt,
                    validatorVars >>

\* Engine.ExecuteWorkflow, called with a request context that stays live
\* for the duration of the call (so CreateExecution succeeds)
ExecuteWorkflow(w, input) ==
    /\ IF w \notin StoredWorkflows
       THEN /\ ret' = [op |-> "execute", id |-> 0, err |-> "load"]
            /\ UNCHANGED << nextExec, dbExec, execMem, execWf, execInput,
                            runningContexts, executionTrackers, trackerStack,
                            pc, wsLog, reqCtx >>
       ELSE IF ~ParseWorkflowOK(w)
       THEN /\ ret' = [op |-> "execute", id |-> 0, err |-> "parse"]
            /\ UNCHANGED << nextExec, dbExec, execMem, execWf, execInput,
                            runningContexts, executionTrackers, trackerStack,
                            pc, wsLog, reqCtx >>
       ELSE LET e == nextExec
                exec == [NoExec EXCEPT !.status = "pending", !.input = input]
            IN /\ nextExec \in DOMAIN dbExec
               /\ nextExec' = nextExec + 1
               /\ dbExec' = [dbExec EXCEPT ![e] = exec]
               /\ execMem' = [execMem EXCEPT ![e] = exec]
               /\ execWf' = [execWf EXCEPT ![e] = w]
               /\ execInput' = [execInput EXCEPT ![e] = input]
               /\ wsLog' = [wsLog EXCEPT ![e] = Append(@, "workflow_started")]
               /\ trackerStack' = [trackerStack EXCEPT ![e] =
                      Push(<< >>, w, ParseWorkflow(w).program_name, "0")]
               /\ runningContexts' = runningContexts \cup {e}
               /\ executionTrackers' = executionTrackers \cup {e}
               /\ pc' = [pc EXCEPT ![e] = "spawned"]
               /\ reqCtx' = [reqCtx EXCEPT ![e] = "live"]
               /\ ret' = [op |-> "execute", id |-> e, err |-> "none"]
    /\ UNCHANGED << dbSteps, dbEvents, ctxDone, idx, xstack, xres, published,
                    cancelPending, streamVars, recvIndex, chanExec, closedAt,
                    validatorVars >>

\* CancelExecution that goes on to cancel() without checking `exists`
CancelLookup_NoCheck(e) ==
    /\ cancelPending' = cancelPending \cup {e}
    /\ ret' = NoRet
    /\ UNCHANGED << nextExec, dbExec, dbSteps, dbEvents, execMem, execWf,
                    execInput, ctxDone, runningContexts, executionTrackers,
                    trackerStack, pc, idx, xstack, xres, published, wsLog,
                    streamVars, histVars,
                    validatorVars >>

\* Engine.CancelExecution, first half: the lookup under the read lock
CancelLookup(e) ==
    /\ IF e \in runningContexts
       THEN /\ cancelPending' = cancelPending \cup {e}
            /\ ret' = NoRet
       ELSE /\ ret' = [op |-> "cancel", id |-> e, err |-> "not_found"]
            /\ UNCHANGED cancelPending
    /\ UNCHANGED << nextExec, dbExec, dbSteps, dbEvents, execMem, execWf,
                    execInput, ctxDone, runningContexts, executionTrackers,
                    trackerStack, pc, idx, xstack, xres, published, wsLog,
                    streamVars, histVars,
                    validatorVars >>

\* Engine.CancelExecution, second half: cancel() and return nil
CancelFire(e) ==
    /\ e \in cancelPending
    /\ ctxDone' = [ctxDone EXCEPT ![e] = TRUE]
    /\ cancelPending' = cancelPending \ {e}
    /\ ret' = [op |-> "cancel", id |-> e, err |-> "none"]
    /\ UNCHANGED << nextExec, dbExec, dbSteps, dbEvents, execMem, execWf,
                    execInput, runningContexts, executionTrackers,
                    trackerStack, pc, idx, xstack, xres, published, wsLog,
                    streamVars, histVars,
                    validatorVars >>

\* the engine API called by a client other than the machine controller
\* (the REST and gRPC handlers)
ApiExecuteWorkflow(w, input) ==
    ExecuteWorkflow(w, input) /\ UNCHANGED machineVars

ApiCancelLookup(e) ==
    CancelLookup(e) /\ UNCHANGED machineVars

ApiCancelFire(e) ==
    CancelFire(e) /\ UNCHANGED machineVars

\* an execution context derived from the caller's request context
execCtxParentDone_Request(callerDone) == callerDone

\* the parent of execCtx is context.Background(), which is never done,
\* whatever becomes of the context ExecuteWorkflow was called with
execCtxParentDone(callerDone) == FALSE

\* the handler that called ExecuteWorkflow returns, or its client goes away:
\* the request context is done
RequestDone(e) ==
    /\ reqCtx[e] = "live"
    /\ reqCtx' = [reqCtx EXCEPT ![e] = "done"]
    /\ ctxDone' = [ctxDone EXCEPT ![e] = @ \/ execCtxParentDone(TRUE)]
    /\ ret' = NoRet
    /\ UNCHANGED << nextExec, dbExec, dbSteps, dbEvents, execMem, execWf,
                    execInput, runningContexts, executionTrackers,
                    trackerStack, pc, idx, xstack, xres, published, wsLog,
                    cancelPending, streamVars, recvIndex, chanExec, closedAt,
                    machineVars, validatorVars >>

\* the tracking fields runExecution copies from the tracker into exec
WithTracking(rec, e) ==
    IF e \in executionTrackers
    THEN [rec EXCEPT !.current_step_id = BuildHierarchicalStepID(trackerStack[e]),
                     !.call_stack = trackerStack[e]]
    ELSE rec

\* runExecution up to the step loop: status running, persisted
RunnerStart(e) ==
    /\ ret' = NoRet
    /\ pc[e] = "spawned"
    /\ LET exec == [execMem[e] EXCEPT !.status = "running"]
       IN /\ execMem' = [execMem EXCEPT ![e] = exec]
          /\ dbExec' = UpdateExecution(dbExec, e, exec, ctxDone[e])
    /\ wsLog' = [wsLog EXCEPT ![e] = Append(@, "running")]
    /\ idx' = [idx EXCEPT ![e] = 0]
    /\ pc' = [pc EXCEPT ![e] = "loop"]
    /\ UNCHANGED << nextExec, dbSteps, dbEvents, execWf, execInput, ctxDone,
                    runningContexts, executionTrackers, trackerStack, xstack,
                    xres, published, cancelPending, streamVars,
                    otherVars >>

\* runExecution, loop head with no step left: all steps completed
RunnerSuccess(e) ==
    /\ ret' = NoRet
    /\ pc[e] = "loop"
    /\ idx[e] >= Len(ParseWorkflow(execWf[e]).steps)
    /\ LET exec == WithTracking([execMem[e] EXCEPT !.status = "success",
                                                   !.completed_at = TRUE], e)
       IN /\ execMem' = [execMem EXCEPT ![e] = exec]
          /\ dbExec' = UpdateExecution(dbExec, e, exec, ctxDone[e])
    /\ wsLog' = [wsLog EXCEPT ![e] = Append(@, "workflow_completed")]
    /\ pc' = [pc EXCEPT ![e] = "exit"]
    /\ UNCHANGED << nextExec, dbSteps, dbEvents, execWf, execInput, ctxDone,
                    runningContexts, executionTrackers, trackerStack, idx,
                    xstack, xres, published, cancelPending, streamVars,
                    otherVars >>

\* runExecution, loop head, case <-ctx.Done()
RunnerCancelled(e) ==
    /\ ret' = NoRet
    /\ pc[e] = "loop"
    /\ idx[e] < Len(ParseWorkflow(execWf[e]).steps)
    /\ ctxDone[e]
    /\ LET exec == WithTracking([execMem[e] EXCEPT !.status = "cancelled",
                                                   !.completed_at = TRUE], e)
       IN /\ execMem' = [execMem EXCEPT ![e] = exec]
          /\ dbExec' = UpdateExecution(dbExec, e, exec, ctxDone[e])
    /\ wsLog' = [wsLog EXCEPT ![e] = Append(@, "workflow_cancelled")]
    /\ pc' = [pc EXCEPT ![e] = "exit"]
    /\ UNCHANGED << nextExec, dbSteps, dbEvents, execWf, execInput, ctxDone,
                    runningContexts, executionTrackers, trackerStack, idx,
                    xstack, xres, published, cancelPending, streamVars,
                    otherVars >>

\* runExecution, loop head, default case: the step is dispatched
RunnerDispatch(e) ==
    /\ ret' = NoRet
    /\ pc[e] = "loop"
    /\ idx[e] < Len(ParseWorkflow(execWf[e]).steps)
    /\ ~ctxDone[e]
    /\ wsLog' = [wsLog EXCEPT ![e] = Append(@, "step_running")]
    /\ pc' = [pc EXCEPT ![e] = "step"]
    /\ UNCHANGED << nextExec, dbExec, dbSteps, dbEvents, execMem, execWf,
                    execInput, ctxDone, runningContexts, executionTrackers,
                    trackerStack, idx, xstack, xres, published, cancelPending,
                    streamVars,
                    otherVars >>

\* the step of the root workflow the runner is at
CurrentStep(e) == ParseWorkflow(execWf[e]).steps[idx[e] + 1]

\* the input runExecution hands to executeStep for step idx[e]
StepInput(e) == execInput[e]

\* Engine.executeStep up to the executor call
StepBegin(e) ==
    /\ ret' = NoRet
    /\ pc[e] = "step"
    /\ IF e \notin executionTrackers
       THEN /\ xres' = [xres EXCEPT ![e] =
                   [state |-> "err", output |-> "nil",
                    error |-> LeafError("execution tracker not found")]]
            /\ pc' = [pc EXCEPT ![e] = "after"]
            /\ UNCHANGED << trackerStack, dbSteps, dbEvents, published,
                            chanBuf >>
       ELSE LET step == CurrentStep(e)
                stack == SetCurrentStep(trackerStack[e], step.number)
                row == [step_index |-> idx[e], step_name |-> step.name,
                        hierarchical_step_id |->
                            BuildHierarchicalStepID(stack),
                        depth |-> Len(stack),
                        status |-> "running", input |-> StepInput(e),
                        output |-> "nil", error |-> NoError,
                        completed_at |-> FALSE]
            IN /\ trackerStack' = [trackerStack EXCEPT ![e] = stack]
               /\ dbSteps' = CreateExecutionStep(dbSteps, e, row, ctxDone[e])
               /\ publishEvent(e, Event("step.started", idx[e], step.name,
                                        "nil", NoError))
               /\ xres' = [xres EXCEPT ![e] = NoResult]
               /\ pc' = [pc EXCEPT ![e] = "executing"]
    /\ UNCHANGED << nextExec, dbExec, execMem, execWf, execInput, ctxDone,
                    runningContexts, executionTrackers, idx, xstack, wsLog,
                    cancelPending, subscribers, chanState, otherVars >>

\* ------------------------------------------------------------ executor
\* StepExecutor.Execute runs on the runner goroutine; xstack holds one frame
\* [wf, i, input] per executeWorkflowStep call in progress (subWorkflow, the
\* loop index and stepInput).

OkResult(out) == [state |-> "ok", output |-> out, error |-> NoError]

ErrResult(err) == [state |-> "err", output |-> "nil", error |-> err]

\* the step the executor is at, and its input
ExecutorStep(e) ==
    IF Len(xstack[e]) = 0
    THEN CurrentStep(e)
    ELSE LET top == xstack[e][Len(xstack[e])]
         IN ParseWorkflow(top.wf).steps[top.i + 1]

ExecutorInput(e) ==
    IF Len(xstack[e]) = 0
    THEN StepInput(e)
    ELSE xstack[e][Len(xstack[e])].input

\* some step of the executor is ready to run
ExecutorAtStep(e) ==
    /\ pc[e] = "executing"
    /\ IF Len(xstack[e]) = 0
       THEN TRUE
       ELSE LET top == xstack[e][Len(xstack[e])]
            IN top.i < Len(ParseWorkflow(top.wf).steps)

RECURSIVE ReturnTo(_, _)
\* a loop of executeWorkflowStep that hands every inner step the input of
\* the outer step
ReturnTo_KeepInput(stack, res) ==
    IF Len(stack) = 0
    THEN [stack |-> stack, res |-> res]
    ELSE LET n == Len(stack)
             top == stack[n]
         IN IF res.state = "ok"
            THEN [stack |-> [stack EXCEPT ![n].i = top.i + 1],
                  res |-> NoResult]
            ELSE ReturnTo(SubSeq(stack, 1, n - 1),
                          ErrResult(WrapSubError(top.i,
                              ParseWorkflow(top.wf).steps[top.i + 1].name,
                              res.error)))

\* a step returns res to its caller: to executeStep when no sub-workflow is
\* in progress, else to the loop of executeWorkflowStep, which threads an
\* output into stepInput and returns a wrapped error to its own caller
ReturnTo(stack, res) ==
    IF Len(stack) = 0
    THEN [stack |-> stack, res |-> res]
    ELSE LET n == Len(stack)
             top == stack[n]
         IN IF res.state = "ok"
            THEN [stack |-> [stack EXCEPT ![n].input = res.output,
                                          ![n].i = top.i + 1],
                  res |-> NoResult]
            ELSE ReturnTo(SubSeq(stack, 1, n - 1),
                          ErrResult(WrapSubError(top.i,
                              ParseWorkflow(top.wf).steps[top.i + 1].name,
                              res.error)))

\* the executor state after a step returned res
ExecutorReturn(e, res) ==
    LET r == ReturnTo(xstack[e], res)
    IN /\ xstack' = [xstack EXCEPT ![e] = r.stack]
       /\ xres' = [xres EXCEPT ![e] = r.res]
       /\ pc' = [pc EXCEPT ![e] =
              IF r.res.state = "none" THEN "executing" ELSE "stepend"]

executorUnchanged ==
    << nextExec, dbExec, dbSteps, dbEvents, execMem, execWf, execInput,
       ctxDone, runningContexts, executionTrackers, trackerStack, idx,
       published, wsLog, cancelPending, streamVars, otherVars >>

\* executeDeviceStep: the device call succeeds with the step's result or
\* fails ("device operation failed")
ExecDevice(e, ok) ==
    /\ ret' = NoRet
    /\ ExecutorAtStep(e)
    /\ ExecutorStep(e).type = "device"
    /\ ExecutorReturn(e, IF ok THEN OkResult(ExecutorStep(e).result)
                         ELSE ErrResult(LeafError("device operation failed")))
    /\ UNCHANGED executorUnchanged

\* executeWaitStep, case <-time.After(duration): returns its input
ExecWaitElapsed(e) ==
    /\ ret' = NoRet
    /\ ExecutorAtStep(e)
    /\ ExecutorStep(e).type = "wait"
    /\ ExecutorReturn(e, OkResult(ExecutorInput(e)))
    /\ UNCHANGED executorUnchanged

\* executeWaitStep, case <-ctx.Done(): returns ctx.Err()
ExecWaitCancelled(e) ==
    /\ ret' = NoRet
    /\ ExecutorAtStep(e)
    /\ ExecutorStep(e).type = "wait"
    /\ ctxDone[e]
    /\ ExecutorReturn(e, ErrResult(LeafError("context canceled")))
    /\ UNCHANGED executorUnchanged

\* executeWorkflowStep up to its loop: load and parse the sub-workflow
ExecSubEnter(e) ==
    /\ ret' = NoRet
    /\ ExecutorAtStep(e)
    /\ ExecutorStep(e).type = "workflow"
    /\ LET wid == ExecutorStep(e).workflow_id
       IN IF wid \notin StoredWorkflows \/ ctxDone[e]
          THEN ExecutorReturn(e,
                   ErrResult(LeafError("failed to load sub-workflow")))
          ELSE IF ~ParseWorkflowOK(wid)
          THEN ExecutorReturn(e,
                   ErrResult(LeafError("failed to parse sub-workflow")))
          ELSE /\ Len(xstack[e]) < MaxDepth
               /\ xstack' = [xstack EXCEPT ![e] =
                      Append(@, [wf |-> wid, i |-> 0,
                                 input |-> ExecutorInput(e)])]
               /\ UNCHANGED << xres, pc >>
    /\ UNCHANGED executorUnchanged

\* executeWorkflowStep after its loop: return stepInput
ExecSubReturn(e) ==
    /\ ret' = NoRet
    /\ pc[e] = "executing"
    /\ Len(xstack[e]) > 0
    /\ LET n == Len(xstack[e])
           top == xstack[e][n]
       IN /\ top.i >= Len(ParseWorkflow(top.wf).steps)
          /\ LET r == ReturnTo(SubSeq(xstack[e], 1, n - 1),
                               OkResult(top.input))
             IN /\ xstack' = [xstack EXCEPT ![e] = r.stack]
                /\ xres' = [xres EXCEPT ![e] = r.res]
                /\ pc' = [pc EXCEPT ![e] =
                       IF r.res.state = "none" THEN "executing" ELSE "stepend"]
    /\ UNCHANGED executorUnchanged

\* Engine.executeStep after the executor call: the step row and its event
StepEnd(e) ==
    /\ ret' = NoRet
    /\ pc[e] = "stepend"
    /\ LET step == CurrentStep(e)
       IN IF xres[e].state = "err"
          THEN /\ dbSteps' = UpdateExecutionStep(dbSteps, e, idx[e], "failed",
                                 "nil", xres[e].error, ctxDone[e])
               /\ publishEvent(e, Event("step.failed", idx[e], step.name,
                                        "nil", xres[e].error))
          ELSE /\ dbSteps' = UpdateExecutionStep(dbSteps, e, idx[e], "success",
                                 xres[e].output, NoError, ctxDone[e])
               /\ publishEvent(e, Event("step.completed", idx[e], step.name,
                                        xres[e].output, NoError))
    /\ pc' = [pc EXCEPT ![e] = "after"]
    /\ UNCHANGED << nextExec, dbExec, execMem, execWf, execInput, ctxDone,
                    runningContexts, executionTrackers, trackerStack, idx,
                    xstack, xres, wsLog, cancelPending, subscribers,
                    chanState, otherVars >>

\* runExecution after executeStep returned an error: status failed
RunnerStepFailed(e) ==
    /\ ret' = NoRet
    /\ pc[e] = "after"
    /\ xres[e].state = "err"
    /\ LET exec == [WithTracking(execMem[e], e) EXCEPT !.status = "failed",
                                                       !.completed_at = TRUE]
       IN /\ execMem' = [execMem EXCEPT ![e] = exec]
          /\ dbExec' = UpdateExecution(dbExec, e, exec, ctxDone[e])
    /\ wsLog' = [wsLog EXCEPT ![e] = Append(@, "workflow_failed")]
    /\ pc' = [pc EXCEPT ![e] = "exit"]
    /\ UNCHANGED << nextExec, dbSteps, dbEvents, execWf, execInput, ctxDone,
                    runningContexts, executionTrackers, trackerStack, idx,
                    xstack, xres, published, cancelPending, streamVars,
                    otherVars >>

\* runExecution after executeStep returned an output: on to the next step
RunnerStepDone(e) ==
    /\ ret' = NoRet
    /\ pc[e] = "after"
    /\ xres[e].state = "ok"
    /\ execMem' = [execMem EXCEPT ![e] = WithTracking(@, e)]
    /\ wsLog' = [wsLog EXCEPT ![e] = Append(@, "step_completed")]
    /\ idx' = [idx EXCEPT ![e] = idx[e] + 1]
    /\ pc' = [pc EXCEPT ![e] = "loop"]
    /\ UNCHANGED << nextExec, dbExec, dbSteps, dbEvents, execWf, execInput,
                    ctxDone, runningContexts, executionTrackers, trackerStack,
                    xstack, xres, published, cancelPending, streamVars,
                    otherVars >>

\* a cleanup that deletes the cancel handle and forgets the tracker
RunnerCleanup_KeepTracker(e) ==
    /\ ret' = NoRet
    /\ pc[e] = "exit"
    /\ runningContexts' = runningContexts \ {e}
    /\ pc' = [pc EXCEPT ![e] = "done"]
    /\ UNCHANGED << nextExec, dbExec, dbSteps, dbEvents, execMem, execWf,
                    execInput, ctxDone, executionTrackers, trackerStack, idx,
                    xstack, xres, published, wsLog, cancelPending,
                    streamVars,
                    otherVars >>

\* the deferred cleanup of the runner goroutine in ExecuteWorkflow
RunnerCleanup(e) ==
    /\ ret' = NoRet
    /\ pc[e] = "exit"
    /\ runningContexts' = runningContexts \ {e}
    /\ executionTrackers' = executionTrackers \ {e}
    /\ pc' = [pc EXCEPT ![e] = "done"]
    /\ UNCHANGED << nextExec, dbExec, dbSteps, dbEvents, execMem, execWf,
                    execInput, ctxDone, trackerStack, idx, xstack, xres,
                    published, wsLog, cancelPending, streamVars, otherVars >>

\* ------------------------------------------------------------ machine
\* Controller.ExecuteCommand runs on the goroutine of its caller; the model
\* keeps one record per call in progress.  Controller.mu is held across a
\* step boundary only by executeStop, between the lookup and the cancel() of
\* CancelExecution; everywhere else a critical section is one step.

CommandRet(e, err) == [op |-> "command", id |-> e, err |-> err]

\* executeHome/Start/Stop/Reset, wrong state: fmt.Errorf("cannot <cmd>: ...")
Rejected(cmd) ==
    CommandRet(0, CASE cmd = "home"  -> "cannot home"
                    [] cmd = "start" -> "cannot start"
                    [] cmd = "stop"  -> "cannot stop"
                    [] OTHER         -> "cannot reset")

\* the error ExecuteWorkflow returns when LoadWorkflow fails
LoadError == LeafError("failed to load workflow")

machineUnchanged == << engineVars, streamVars, histVars, validatorVars >>

\* a new ExecuteCommand call; calls have no identity of their own, so the
\* call takes the first free record
Arrives(h) ==
    /\ hpc[h] = "idle"
    /\ \A g \in Handlers : g < h => hpc[g] # "idle"

\* Controller.setState; wsHub.Broadcast is a non-blocking send
setState(state, errorMsg) ==
    /\ mu = 0
    /\ currentState' = state
    /\ errorMessage' = errorMsg

\* ExecuteCommand, default case: unknown command
ExecuteCommandUnknown(h) ==
    /\ Arrives(h)
    /\ mu = 0
    /\ ret' = CommandRet(0, "unknown")
    /\ UNCHANGED << machineVars, machineUnchanged >>

\* an executeX that accepts in any state
executeHome_NoCheck(h) ==
    /\ Arrives(h)
    /\ mu = 0
    /\ currentState' = "homing"
    /\ hcmd' = [hcmd EXCEPT ![h] = "home"]
    /\ hpc' = [hpc EXCEPT ![h] = "exec"]
    /\ lastHome' = -h
    /\ cycleOwner' = -h
    /\ ret' = NoRet
    /\ UNCHANGED << currentExecID, productionCycles, errorMessage, mu, hexec,
                    monPc, monTarget, lastStart, machineUnchanged >>

\* executeHome up to the engine call
executeHome(h) ==
    /\ Arrives(h)
    /\ mu = 0
    /\ IF currentState # "stopped"
       THEN /\ ret' = Rejected("home")
            /\ UNCHANGED << currentState, hcmd, hpc, lastHome, cycleOwner >>
       ELSE /\ currentState' = "homing"
            /\ hcmd' = [hcmd EXCEPT ![h] = "home"]
            /\ hpc' = [hpc EXCEPT ![h] = "exec"]
            /\ lastHome' = -h
            /\ cycleOwner' = -h
            /\ ret' = NoRet
    /\ UNCHANGED << currentExecID, productionCycles, errorMessage, mu, hexec,
                    monPc, monTarget, lastStart, machineUnchanged >>

\* an executeStart that checks the state and leaves the write of running to
\* a later critical section
executeStart_CheckOnly(h) ==
    /\ Arrives(h)
    /\ mu = 0
    /\ IF currentState # "ready"
       THEN /\ ret' = Rejected("start")
            /\ UNCHANGED << currentState, productionCycles, hcmd, hpc,
                            lastStart, cycleOwner >>
       ELSE /\ hcmd' = [hcmd EXCEPT ![h] = "start"]
            /\ hpc' = [hpc EXCEPT ![h] = "exec"]
            /\ lastStart' = -h
            /\ cycleOwner' = -h
            /\ ret' = NoRet
            /\ UNCHANGED << currentState, productionCycles >>
    /\ UNCHANGED << currentExecID, errorMessage, mu, hexec, monPc, monTarget,
                    lastHome, machineUnchanged >>

\* executeStart up to the engine call
executeStart(h) ==
    /\ Arrives(h)
    /\ mu = 0
    /\ IF currentState # "ready"
       THEN /\ ret' = Rejected("start")
            /\ UNCHANGED << currentState, productionCycles, hcmd, hpc,
                            lastStart, cycleOwner >>
       ELSE /\ currentState' = "running"
            /\ productionCycles' = 0
            /\ hcmd' = [hcmd EXCEPT ![h] = "start"]
            /\ hpc' = [hpc EXCEPT ![h] = "exec"]
            /\ lastStart' = -h
            /\ cycleOwner' = -h
            /\ ret' = NoRet
    /\ UNCHANGED << currentExecID, errorMessage, mu, hexec, monPc, monTarget,
                    lastHome, machineUnchanged >>

\* executeStop up to the lookup of CancelExecution; when the lookup finds
\* nothing (or currentExecID is uuid.Nil) the critical section ends here
executeStop(h) ==
    /\ Arrives(h)
    /\ mu = 0
    /\ IF currentState # "running"
       THEN /\ ret' = Rejected("stop")
            /\ UNCHANGED << currentState, mu, hcmd, hpc, hexec, cycleOwner,
                            machineUnchanged >>
       ELSE /\ hcmd' = [hcmd EXCEPT ![h] = "stop"]
            /\ cycleOwner' = -h
            /\ hexec' = [hexec EXCEPT ![h] = currentExecID]
            /\ IF currentExecID # 0
               THEN CancelLookup(currentExecID)
               ELSE ret' = NoRet /\ UNCHANGED machineUnchanged
            /\ IF currentExecID # 0 /\ currentExecID \in runningContexts
               THEN /\ mu' = h
                    /\ hpc' = [hpc EXCEPT ![h] = "cancel"]
                    /\ UNCHANGED currentState
               ELSE /\ currentState' = "stopping"
                    /\ hpc' = [hpc EXCEPT ![h] = "exec"]
                    /\ UNCHANGED mu
    /\ UNCHANGED << currentExecID, productionCycles, errorMessage, monPc,
                    monTarget, lastHome, lastStart >>

\* an executeStop that keeps c.mu until the stop workflow has been started
executeStopCancel_KeepLock(h) ==
    /\ hpc[h] = "cancel"
    /\ mu = h
    /\ CancelFire(hexec[h])
    /\ currentState' = "stopping"
    /\ hpc' = [hpc EXCEPT ![h] = "exec"]
    /\ UNCHANGED << currentExecID, productionCycles, errorMessage, mu, hcmd,
                    hexec, monPc, monTarget, lastVars >>

\* executeStop from the cancel() of CancelExecution to the unlock
executeStopCancel(h) ==
    /\ hpc[h] = "cancel"
    /\ mu = h
    /\ CancelFire(hexec[h])
    /\ currentState' = "stopping"
    /\ mu' = 0
    /\ hpc' = [hpc EXCEPT ![h] = "exec"]
    /\ UNCHANGED << currentExecID, productionCycles, errorMessage, hcmd,
                    hexec, monPc, monTarget, lastVars >>

\* the workflow an accepted command executes
CommandWorkflow(cmd) ==
    CASE cmd = "home"  -> homeWorkflowID
      [] cmd = "start" -> productionWorkflowID
      [] cmd = "stop"  -> stopWorkflowID
      [] OTHER         -> "none"

\* executeHome/Start/Stop: ExecuteWorkflow(ctx, id, nil) returns an id
CommandExecute(h) ==
    /\ hpc[h] = "exec"
    /\ ExecuteWorkflow(CommandWorkflow(hcmd[h]), "nil")
    /\ hexec' = [hexec EXCEPT ![h] = ret'.id]
    /\ hpc' = [hpc EXCEPT ![h] = "created"]
    /\ lastHome' = IF lastHome = -h THEN ret'.id ELSE lastHome
    /\ lastStart' = IF lastStart = -h THEN ret'.id ELSE lastStart
    /\ cycleOwner' = IF cycleOwner = -h THEN ret'.id ELSE cycleOwner
    /\ UNCHANGED << currentState, currentExecID, productionCycles,
                    errorMessage, mu, hcmd, monPc, monTarget >>

\* executeHome/Start/Stop: ExecuteWorkflow returns an error, because
\* LoadWorkflow failed (the request context ended, or storage failed); the
\* calls that fail are those made once MaxMachineExec executions exist
CommandExecuteFails(h) ==
    /\ hpc[h] = "exec"
    /\ nextExec \notin DOMAIN dbExec
    /\ ret' = [op |-> "execute", id |-> 0, err |-> "load"]
    /\ hpc' = [hpc EXCEPT ![h] = "failed"]
    /\ UNCHANGED << currentState, currentExecID, productionCycles,
                    errorMessage, mu, hcmd, hexec, monPc, monTarget,
                    lastVars, machineUnchanged >>

\* executeHome/Start/Stop, err != nil: setState(StateError, err.Error())
CommandFailed(h) ==
    /\ hpc[h] = "failed"
    /\ setState("error", LoadError)
    /\ hcmd' = [hcmd EXCEPT ![h] = "none"]
    /\ hpc' = [hpc EXCEPT ![h] = "idle"]
    /\ lastHome' = IF lastHome = -h THEN 0 ELSE lastHome
    /\ lastStart' = IF lastStart = -h THEN 0 ELSE lastStart
    /\ ret' = CommandRet(0, "load")
    /\ UNCHANGED << currentExecID, productionCycles, mu, hexec, monPc,
                    monTarget, cycleOwner, machineUnchanged >>

\* executeHome/Start/Stop, err == nil: store the id and spawn the observer
CommandSpawn(h) ==
    /\ hpc[h] = "created"
    /\ mu = 0
    /\ currentExecID' = hexec[h]
    /\ monPc' = [monPc EXCEPT ![hexec[h]] =
           IF hcmd[h] = "start" THEN "tick" ELSE "watch"]
    /\ monTarget' = [monTarget EXCEPT ![hexec[h]] =
           CASE hcmd[h] = "home" -> "ready"
             [] hcmd[h] = "stop" -> "stopped"
             [] OTHER            -> "none"]
    /\ hcmd' = [hcmd EXCEPT ![h] = "none"]
    /\ hexec' = [hexec EXCEPT ![h] = 0]
    /\ hpc' = [hpc EXCEPT ![h] = "idle"]
    /\ ret' = CommandRet(hexec[h], "none")
    /\ UNCHANGED << currentState, productionCycles, errorMessage, mu,
                    lastVars, machineUnchanged >>

\* executeReset
executeReset(h) ==
    /\ Arrives(h)
    /\ mu = 0
    /\ IF currentState \notin {"error", "emergency"}
       THEN /\ ret' = Rejected("reset")
            /\ UNCHANGED << currentState, errorMessage, currentExecID,
                            cycleOwner >>
       ELSE /\ currentState' = "stopped"
            /\ errorMessage' = NoError
            /\ currentExecID' = 0
            /\ cycleOwner' = 0
            /\ ret' = CommandRet(0, "none")
    /\ UNCHANGED << productionCycles, mu, hcmd, hpc, hexec, monPc, monTarget,
                    lastHome, lastStart, machineUnchanged >>

\* monitorWorkflow, a tick at which GetExecutionStatus returns a terminal
\* status (a persisted terminal status never changes, so the read and the
\* setState that follows it are one step)
monitorWorkflow(e) ==
    /\ monPc[e] = "watch"
    /\ dbExec[e].status \in TerminalStatus
    /\ IF dbExec[e].status = "success"
       THEN setState(monTarget[e], NoError)
       ELSE IF dbExec[e].status = "failed"
       THEN setState("error", dbExec[e].error)
       ELSE UNCHANGED << currentState, errorMessage >>
    /\ monPc' = [monPc EXCEPT ![e] = "done"]
    /\ ret' = NoRet
    /\ UNCHANGED << currentExecID, productionCycles, mu, hcmd, hpc, hexec,
                    monTarget, lastVars, machineUnchanged >>

\* monitorProductionWorkflow, a tick: read the state under the read lock
monitorProductionTick(e) ==
    /\ monPc[e] = "tick"
    /\ mu = 0
    /\ monPc' = [monPc EXCEPT ![e] =
           IF currentState # "running" THEN "done" ELSE "polled"]
    /\ ret' = NoRet
    /\ UNCHANGED << currentState, currentExecID, productionCycles,
                    errorMessage, mu, hcmd, hpc, hexec, monTarget,
                    lastVars, machineUnchanged >>

\* monitorProductionWorkflow after the state check: GetExecutionStatus.  No
\* output of the model's workflows has an "iterations_completed" entry, so
\* productionCycles is not assigned.
monitorProductionPoll(e) ==
    /\ monPc[e] = "polled"
    /\ IF dbExec[e].status = "failed"
       THEN /\ setState("error", dbExec[e].error)
            /\ monPc' = [monPc EXCEPT ![e] = "done"]
       ELSE /\ monPc' = [monPc EXCEPT ![e] = "tick"]
            /\ UNCHANGED << currentState, errorMessage >>
    /\ ret' = NoRet
    /\ UNCHANGED << currentExecID, productionCycles, mu, hcmd, hpc, hexec,
                    monTarget, lastVars, machineUnchanged >>

\* ------------------------------------------------------------ validator
\* Validator.ValidateByID over the workflows and devices tables.  The call is
\* sequential; the model takes one step per storage round of the walk: the
\* entry of ValidateByID, one step per loop iteration of validateWorkflow
\* (with the walk prologue of the sub-workflow a workflow step leads to), the
\* return of a walk, and finalize.

\* workflow ids (uuid strings, in their string order); "M" is stored nowhere
ValStored == {"A", "B", "C", "X"}

ValIDs == ValStored \cup {"M"}

IdRank(id) ==
    CASE id = "A" -> 1 [] id = "B" -> 2 [] id = "C" -> 3 [] id = "M" -> 4
      [] id = "X" -> 5 [] OTHER -> 0

\* uuid.Parse: the ids parse, "" and "bad" do not
ParsesAsUUID(s) == s \in ValIDs

VStep(name, type, wfid, dev, op, params) ==
    [name |-> name, type |-> type, workflow_id |-> wfid, device_id |-> dev,
     operation |-> op, parameters |-> params]

\* step.Parameters: a nil map, or a map with the given keys whose
\* "register_type" entry, when present, is the string rt
NilParams == [nil |-> TRUE, keys |-> {}, register_type |-> ""]

Params(keys, rt) == [nil |-> FALSE, keys |-> keys, register_type |-> rt]

RefStep(id) == VStep("call", "workflow", id, "", "", NilParams)

VDeviceStep(dev, op, params) == VStep("io", "device", "", dev, op, params)

\* a stored definition that definition.ParseWorkflow accepts
VWorkflow(name, version, loop, steps) ==
    [parses |-> TRUE, name |-> name, version |-> version, loop |-> loop,
     steps |-> steps]

NoLoop == [enabled |-> FALSE, max_count |-> 0]

\* a stored definition that definition.ParseWorkflow rejects
Unparsable ==
    [parses |-> FALSE, name |-> "", version |-> "", loop |-> NoLoop,
     steps |-> << >>]

\* definition.ParseWorkflow succeeds on the stored workflow id
ParseOk(id) == valStore[id].parses

\* the devices table: DeviceExistsEnabledByName
DeviceLookup(dev) ==
    CASE dev = "d1" -> "enabled"
      [] dev = "d2" -> "disabled"
      [] OTHER      -> "missing"

\* step lists made of references only
RefSeqs(targets) ==
    UNION { { [k \in 1..n |-> RefStep(f[k])] : f \in [1..n -> targets] } :
            n \in 0..MaxRefs }

\* what workflow "C" may hold: leaves with every kind of content finding,
\* and a reference back to the root
LeafWorkflows ==
    { VWorkflow("C", "1", NoLoop,
          << VDeviceStep("d1", "read_logical", Params({"register"}, "")) >>),
      VWorkflow("C", "1", NoLoop,
          << VDeviceStep("d1", "write",
                 Params({"register_type", "address"}, "holding")) >>),
      VWorkflow("C", "1", NoLoop,
          << VDeviceStep("d2", "read", NilParams),
             VStep("pause", "wait", "", "", "", NilParams) >>),
      VWorkflow("C", "1", NoLoop,
          << VDeviceStep("d3", "write", Params({"register_type"}, "coil")),
             VDeviceStep("", "", NilParams),
             VDeviceStep("d1", "toggle", NilParams) >>),
      VWorkflow("C", "1", [enabled |-> TRUE, max_count |-> -1], << >>),
      VWorkflow("", "", [enabled |-> TRUE, max_count |-> -1],
          << VStep("", "script", "", "", "", NilParams),
             RefStep(""), RefStep("bad") >>),
      VWorkflow("C", "1", NoLoop, << RefStep("A") >>) }

\* the workflows table: A and B are made of references, X holds a
\* definition that ParseWorkflow rejects
ValStores ==
    { [id \in ValStored |->
          CASE id = "A" -> VWorkflow("A", "1", NoLoop, sa)
            [] id = "B" -> VWorkflow("B", "1", NoLoop, sb)
            [] id = "C" -> c
            [] OTHER    -> Unparsable] :
      sa \in RefSeqs(ValIDs), sb \in RefSeqs({"A", "B", "C"}),
      c \in LeafWorkflows }

ValRoots == {"A", "X", "M"}

\* the steps of a stored workflow as ParseWorkflow returns them
StepsOf(id) == valStore[id].steps

\* an Issue; path is the JSON pointer "/steps/<idx>" + leaf, or leaf alone
\* when idx is -1; step_index, param and cycle are the entries of Meta
Issue(code, sev, wid, i, leaf, param, cycle) ==
    [code |-> code, severity |-> sev, workflow_id |-> wid,
     path |-> [idx |-> i, leaf |-> leaf],
     step_index |-> i, param |-> param, cycle |-> cycle]

IssueE(code, wid, i, leaf) == Issue(code, "error", wid, i, leaf, "", << >>)

\* Report.addError / Report.addWarning
addError(rep, issues) == [rep EXCEPT !.errors = @ \o issues]

addWarning(rep, issues) == [rep EXCEPT !.warnings = @ \o issues]

\* ---- sortIssues: the string order of the four keys
\* paths of a workflow: "" < "/definition" < "/loop/max_count" < "/name"
\* < "/steps" < "/steps/<i>/..." < "/version"
TopRank(leaf) ==
    CASE leaf = ""                -> 0
      [] leaf = "/definition"     -> 1
      [] leaf = "/loop/max_count" -> 2
      [] leaf = "/name"           -> 3
      [] leaf = "/steps"          -> 4
      [] OTHER                    -> 1000

\* paths below "/steps/<i>"
LeafRank(leaf) ==
    CASE leaf = "/device_id"                -> 0
      [] leaf = "/name"                     -> 1
      [] leaf = "/operation"                -> 2
      [] leaf = "/parameters"               -> 3
      [] leaf = "/parameters/register_type" -> 4
      [] leaf = "/type"                     -> 5
      [] OTHER                              -> 6

\* the string order of paths, for step indices of one digit
PathRank(p) ==
    IF p.idx < 0 THEN TopRank(p.leaf)
    ELSE 10 + 10 * p.idx + LeafRank(p.leaf)

CodesInOrder ==
    << "DEVICE_001", "DEVICE_002", "DEVICE_010", "DEVICE_011", "DEVICE_012",
       "DEVICE_020", "DEVICE_021", "DEVICE_999", "STEP_001", "STEP_002",
       "WORKFLOW_001", "WORKFLOW_002", "WORKFLOW_003", "WORKFLOW_004",
       "WORKFLOW_005", "WORKFLOW_010", "WORKFLOW_011", "WORKFLOW_050",
       "WORKFLOW_900", "WORKFLOW_901", "WORKFLOW_999" >>

CodeRank(code) ==
    CHOOSE k \in 1..Len(CodesInOrder) : CodesInOrder[k] = code

\* two issues with the same workflow, path and code differ in their message
\* only by the parameter a DEVICE_020 names
MessageRank(i) ==
    CASE i.param = "address"       -> 1
      [] i.param = "register"      -> 2
      [] i.param = "register_type" -> 3
      [] i.param = "value"         -> 4
      [] OTHER                     -> 0

IssueLess(a, b) ==
    IF a.workflow_id # b.workflow_id
    THEN IdRank(a.workflow_id) < IdRank(b.workflow_id)
    ELSE IF a.path # b.path
    THEN PathRank(a.path) < PathRank(b.path)
    ELSE IF a.code # b.code
    THEN CodeRank(a.code) < CodeRank(b.code)
    ELSE MessageRank(a) < MessageRank(b)

\* insert x behind the last element it is not less than
RECURSIVE InsertIssue(_, _)
InsertIssue(list, x) ==
    IF list = << >> THEN << x >>
    ELSE LET last == list[Len(list)]
         IN  IF IssueLess(x, last)
             THEN Append(InsertIssue(SubSeq(list, 1, Len(list) - 1), x), last)
             ELSE Append(list, x)

\* sort.SliceStable
RECURSIVE sortIssues(_)
sortIssues(list) ==
    IF list = << >> THEN << >>
    ELSE InsertIssue(sortIssues(SubSeq(list, 1, Len(list) - 1)),
                     list[Len(list)])

\* a finalize that leaves the lists in the order of collection
finalize_NoSort(rep) ==
    [valid |-> rep.errors = << >>,
     errors |-> rep.errors,
     warnings |-> rep.warnings]

\* Report.finalize
finalize(rep) ==
    [valid |-> rep.errors = << >>,
     errors |-> sortIssues(rep.errors),
     warnings |-> sortIssues(rep.warnings)]

\* ---- validateWorkflow, before its loop
HeaderErrors(wid, def) ==
    (IF def.name = "" THEN << IssueE("WORKFLOW_001", wid, -1, "/name") >>
     ELSE << >>)
    \o (IF def.steps = << >>
        THEN << IssueE("WORKFLOW_004", wid, -1, "/steps") >>
        ELSE IF def.loop.enabled /\ def.loop.max_count < 0
        THEN << IssueE("WORKFLOW_005", wid, -1, "/loop/max_count") >>
        ELSE << >>)

HeaderWarnings(wid, def) ==
    IF def.version = ""
    THEN << Issue("WORKFLOW_002", "warning", wid, -1, "/version", "", << >>) >>
    ELSE << >>

\* the loop body before the switch
NameErrors(wid, step, i) ==
    IF step.name = "" THEN << IssueE("STEP_001", wid, i, "/name") >>
    ELSE << >>

\* a cyclePath that starts at the bottom of the stack
cyclePath_WholeStack(target) == Append(walkStack, target)

\* walkState.cyclePath
cyclePath(target) ==
    LET hits == { k \in 1..Len(walkStack) : walkStack[k] = target }
    IN  IF hits = {} THEN << target >>
        ELSE LET start == CHOOSE k \in hits : \A j \in hits : k <= j
             IN  Append(SubSeq(walkStack, start, Len(walkStack)), target)

\* a walk that never takes the done branch
walkSkips_Never(wid) == FALSE

\* walkState.walk: if st.done[wid] { return }
walkSkips(wid) == wid \in walkDone

\* a walk that marks a workflow done without an issue when its load fails
walk_SilentLoadFailure(wid, fault) ==
    LET out(errs, done, enter) ==
            [errors |-> errs, done |-> done, enter |-> enter]
        plain(code) == Issue(code, "error", wid, -1, "", "", << >>)
    IN  IF walkSkips(wid) THEN out(<< >>, FALSE, FALSE)
        ELSE IF wid \in walkVisiting
        THEN out(<< plain("WORKFLOW_050") >>, FALSE, FALSE)
        ELSE IF wid \in walkCache THEN out(<< >>, FALSE, TRUE)
        ELSE IF fault \in {"getWorkflow.exists", "getWorkflow.load"}
        THEN out(<< >>, TRUE, FALSE)
        ELSE IF wid \notin DOMAIN valStore
        THEN out(<< plain("WORKFLOW_003") >>, TRUE, FALSE)
        ELSE IF ~ParseOk(wid)
        THEN out(<< IssueE("WORKFLOW_900", wid, -1, "/definition"),
                    plain("WORKFLOW_003") >>, TRUE, FALSE)
        ELSE out(<< >>, FALSE, TRUE)

\* walkState.walk(wid) with getWorkflow, up to the call of validateWorkflow:
\* the errors it adds, whether it marks wid done, and whether it goes on
\* into validateWorkflow.  fault names the storage call that fails.
walk(wid, fault) ==
    LET out(errs, done, enter) ==
            [errors |-> errs, done |-> done, enter |-> enter]
        plain(code) == Issue(code, "error", wid, -1, "", "", << >>)
    IN  IF walkSkips(wid) THEN out(<< >>, FALSE, FALSE)
        ELSE IF wid \in walkVisiting
        THEN out(<< plain("WORKFLOW_050") >>, FALSE, FALSE)
        ELSE IF wid \in walkCache THEN out(<< >>, FALSE, TRUE)
        ELSE IF fault = "getWorkflow.exists"
        THEN out(<< plain("WORKFLOW_901") >>, TRUE, FALSE)
        ELSE IF wid \notin DOMAIN valStore
        THEN out(<< plain("WORKFLOW_003") >>, TRUE, FALSE)
        ELSE IF fault = "getWorkflow.load"
        THEN out(<< plain("WORKFLOW_901") >>, TRUE, FALSE)
        ELSE IF ~ParseOk(wid)
        THEN out(<< IssueE("WORKFLOW_900", wid, -1, "/definition"),
                    plain("WORKFLOW_003") >>, TRUE, FALSE)
        ELSE out(<< >>, FALSE, TRUE)

\* the loop index of the innermost validateWorkflow moves on
NextStep(stackIdx) ==
    IF stackIdx = << >> THEN stackIdx
    ELSE [stackIdx EXCEPT ![Len(stackIdx)] = @ + 1]

\* the effect of walk(wid), called with errs and warns already found
DoWalk(wid, fault, errs, warns) ==
    LET w == walk(wid, fault)
    IN  /\ walkDone' = IF w.done THEN walkDone \cup {wid} ELSE walkDone
        /\ IF w.enter
           THEN /\ walkCache' = walkCache \cup {wid}
                /\ walkVisiting' = walkVisiting \cup {wid}
                /\ walkStack' = Append(walkStack, wid)
                /\ walkIdx' = Append(walkIdx, 0)
                /\ validated' = Append(validated, wid)
                /\ report' = addWarning(
                       addError(report, errs \o w.errors
                                    \o HeaderErrors(wid, valStore[wid])),
                       warns \o HeaderWarnings(wid, valStore[wid]))
           ELSE /\ walkIdx' = NextStep(walkIdx)
                /\ report' = addWarning(addError(report, errs \o w.errors),
                                        warns)
                /\ UNCHANGED << walkCache, walkVisiting, walkStack,
                                validated >>

validatorUnchanged == << engineVars, streamVars, histVars, machineVars >>

\* a storage call fails only while the budget of failures lasts, and the
\* repeated call is made with the storage working
Fails(fault) ==
    /\ fault # "none" => (valFaults < MaxFaults /\ prevReport = NoReport)
    /\ valFaults' = IF fault # "none" THEN valFaults + 1 ELSE valFaults

\* ValidateByID up to the first storage round of the walk
ValidateByID(fault) ==
    /\ valPc = "idle"
    /\ valRoot \in ValRoots
    /\ fault \in {"none", "load"}
    /\ Fails(fault)
    /\ IF fault = "load" \/ valRoot \notin DOMAIN valStore
       THEN /\ valRet' = "error"
            /\ valPc' = "returned"
            /\ UNCHANGED << walkCache, walkVisiting, walkDone, walkStack,
                            walkIdx, report, validated >>
       ELSE IF ~ParseOk(valRoot)
       THEN /\ report' = finalize(addError(report,
                << IssueE("WORKFLOW_900", valRoot, -1, "/definition") >>))
            /\ valRet' = "report"
            /\ valPc' = "returned"
            /\ UNCHANGED << walkCache, walkVisiting, walkDone, walkStack,
                            walkIdx, validated >>
       ELSE /\ walkCache' = {valRoot}
            /\ walkVisiting' = {valRoot}
            /\ walkStack' = << valRoot >>
            /\ walkIdx' = << 0 >>
            /\ validated' = << valRoot >>
            /\ report' = addWarning(
                   addError(report, HeaderErrors(valRoot, valStore[valRoot])),
                   HeaderWarnings(valRoot, valStore[valRoot]))
            /\ valRet' = "none"
            /\ valPc' = "walking"
            /\ UNCHANGED walkDone
    /\ UNCHANGED << valStore, valRoot, prevReport, validatorUnchanged, ret >>

\* the workflow validateWorkflow is in, its loop index and step
TopWorkflow == walkStack[Len(walkStack)]

TopIndex == walkIdx[Len(walkIdx)]

InLoop ==
    /\ valPc = "walking"
    /\ walkStack # << >>
    /\ TopIndex < Len(StepsOf(TopWorkflow))

TopStep == StepsOf(TopWorkflow)[TopIndex + 1]

\* requiredParamsForOp
requiredParamsForOp(op) ==
    CASE op = "read"           -> << "register_type", "address" >>
      [] op = "write"          -> << "register_type", "address", "value" >>
      [] op = "read_logical"   -> << "register" >>
      [] op = "write_logical"  -> << "register", "value" >>
      [] op = "read_register"  -> << "register" >>
      [] op = "write_register" -> << "register", "value" >>
      [] OTHER                 -> << >>

SupportedOps ==
    {"read", "write", "read_logical", "write_logical", "read_register",
     "write_register"}

\* DEVICE_020 for the required parameters from position k on
RECURSIVE MissingParams(_, _, _, _)
MissingParams(wid, step, i, k) ==
    LET req == requiredParamsForOp(step.operation)
    IN  IF k > Len(req) THEN << >>
        ELSE (IF step.parameters.nil
                 \/ req[k] \notin step.parameters.keys
              THEN << Issue("DEVICE_020", "warning", wid, i, "/parameters",
                            req[k], << >>) >>
              ELSE << >>) \o MissingParams(wid, step, i, k + 1)

\* validateDeviceStep: the errors it adds
DeviceErrors(wid, step, i, fault) ==
    (IF step.device_id = ""
     THEN << IssueE("DEVICE_010", wid, i, "/device_id") >>
     ELSE IF fault = "device"
     THEN << IssueE("DEVICE_999", wid, i, "/device_id") >>
     ELSE IF DeviceLookup(step.device_id) = "missing"
     THEN << IssueE("DEVICE_001", wid, i, "/device_id") >>
     ELSE IF DeviceLookup(step.device_id) = "disabled"
     THEN << IssueE("DEVICE_002", wid, i, "/device_id") >>
     ELSE << >>)
    \o (IF step.operation = ""
        THEN << IssueE("DEVICE_011", wid, i, "/operation") >>
        ELSE IF step.operation \notin SupportedOps
        THEN << IssueE("DEVICE_012", wid, i, "/operation") >>
        ELSE IF /\ ~step.parameters.nil
                /\ step.operation \in {"read", "write"}
                /\ "register_type" \in step.parameters.keys
                /\ step.parameters.register_type \notin {"holding", "input"}
        THEN << IssueE("DEVICE_021", wid, i, "/parameters/register_type") >>
        ELSE << >>)

\* a validateDeviceStep that warns about the first missing parameter only
DeviceWarnings_FirstOnly(wid, step, i) ==
    IF step.operation \in SupportedOps
    THEN SubSeq(MissingParams(wid, step, i, 1), 1, 1)
    ELSE << >>

\* validateDeviceStep: the warnings it adds
DeviceWarnings(wid, step, i) ==
    IF step.operation \in SupportedOps
    THEN MissingParams(wid, step, i, 1)
    ELSE << >>

\* one loop iteration of validateWorkflow on a device step
validateDeviceStep(fault) ==
    /\ InLoop
    /\ TopStep.type = "device"
    /\ fault \in {"none", "device"}
    /\ fault = "device" => TopStep.device_id # ""
    /\ Fails(fault)
    /\ report' = addWarning(
           addError(report,
               NameErrors(TopWorkflow, TopStep, TopIndex)
               \o DeviceErrors(TopWorkflow, TopStep, TopIndex, fault)),
           DeviceWarnings(TopWorkflow, TopStep, TopIndex))
    /\ walkIdx' = NextStep(walkIdx)
    /\ UNCHANGED << valStore, valRoot, prevReport, valPc, walkCache, walkVisiting,
                    walkDone, walkStack, valRet, validated,
                    validatorUnchanged, ret >>

\* one loop iteration on a wait step or on a step of an unsupported type
validateOtherStep ==
    /\ InLoop
    /\ TopStep.type \notin {"device", "workflow"}
    /\ report' = addError(report,
           NameErrors(TopWorkflow, TopStep, TopIndex)
           \o (IF TopStep.type = "wait" THEN << >>
               ELSE << IssueE("STEP_002", TopWorkflow, TopIndex, "/type") >>))
    /\ walkIdx' = NextStep(walkIdx)
    /\ UNCHANGED << valStore, valRoot, prevReport, valPc, walkCache, walkVisiting,
                    walkDone, walkStack, valRet, valFaults, validated,
                    validatorUnchanged, ret >>

\* one loop iteration on a workflow step: validateSubWorkflowStep, and the
\* walk of the referenced workflow up to its validateWorkflow
validateSubWorkflowStep(fault) ==
    /\ InLoop
    /\ TopStep.type = "workflow"
    /\ fault \in {"none", "exists", "getWorkflow.exists", "getWorkflow.load"}
    /\ fault # "none" => ParsesAsUUID(TopStep.workflow_id)
    /\ fault \in {"getWorkflow.exists", "getWorkflow.load"} =>
          /\ TopStep.workflow_id \in DOMAIN valStore
          /\ TopStep.workflow_id \notin
                 walkVisiting \cup walkDone \cup walkCache
    /\ Fails(fault)
    /\ LET wid == TopWorkflow
           i == TopIndex
           subID == TopStep.workflow_id
           named == NameErrors(wid, TopStep, i)
           stop(code, cycle) ==
               /\ report' = addError(report, named \o
                      << Issue(code, "error", wid, i, "/workflow_id", "",
                               cycle) >>)
               /\ walkIdx' = NextStep(walkIdx)
               /\ UNCHANGED << walkCache, walkVisiting, walkDone, walkStack,
                               validated >>
       IN  IF subID = "" THEN stop("WORKFLOW_010", << >>)
           ELSE IF ~ParsesAsUUID(subID) THEN stop("WORKFLOW_011", << >>)
           ELSE IF fault = "exists" THEN stop("WORKFLOW_999", << >>)
           ELSE IF subID \notin DOMAIN valStore
           THEN stop("WORKFLOW_003", << >>)
           ELSE IF subID \in walkVisiting
           THEN stop("WORKFLOW_050", cyclePath(subID))
           ELSE DoWalk(subID, fault, named, << >>)
    /\ UNCHANGED << valStore, valRoot, prevReport, valPc, valRet, validatorUnchanged,
                    ret >>

\* a return of walk that does not mark the workflow done
walkReturn_NoDone ==
    /\ valPc = "walking"
    /\ walkStack # << >>
    /\ TopIndex = Len(StepsOf(TopWorkflow))
    /\ walkStack' = SubSeq(walkStack, 1, Len(walkStack) - 1)
    /\ walkIdx' = NextStep(SubSeq(walkIdx, 1, Len(walkIdx) - 1))
    /\ walkVisiting' = walkVisiting \ {TopWorkflow}
    /\ UNCHANGED << valStore, valRoot, prevReport, valPc, walkCache, walkDone,
                    report, valRet, valFaults, validated, validatorUnchanged,
                    ret >>

\* validateWorkflow returns to walk, walk to validateSubWorkflowStep, and
\* the loop of the caller moves on
walkReturn ==
    /\ valPc = "walking"
    /\ walkStack # << >>
    /\ TopIndex = Len(StepsOf(TopWorkflow))
    /\ walkStack' = SubSeq(walkStack, 1, Len(walkStack) - 1)
    /\ walkIdx' = NextStep(SubSeq(walkIdx, 1, Len(walkIdx) - 1))
    /\ walkVisiting' = walkVisiting \ {TopWorkflow}
    /\ walkDone' = walkDone \cup {TopWorkflow}
    /\ UNCHANGED << valStore, valRoot, prevReport, valPc, walkCache, report, valRet,
                    valFaults, validated, validatorUnchanged, ret >>

\* ValidateByID after the walk: rep.finalize() and return
ValidateByIDReturn ==
    /\ valPc = "walking"
    /\ walkStack = << >>
    /\ report' = finalize(report)
    /\ valRet' = "report"
    /\ valPc' = "returned"
    /\ UNCHANGED << valStore, valRoot, prevReport, walkCache, walkVisiting, walkDone,
                    walkStack, walkIdx, valFaults, validated,
                    validatorUnchanged, ret >>

\* ValidateByID is called again for the same root over the same tables,
\* after a call in which no storage call failed
ValidateAgain ==
    /\ valPc = "returned"
    /\ valRet = "report"
    /\ valFaults = 0
    /\ prevReport = NoReport
    /\ prevReport' = report
    /\ valPc' = "idle"
    /\ walkCache' = {}
    /\ walkVisiting' = {}
    /\ walkDone' = {}
    /\ walkStack' = << >>
    /\ walkIdx' = << >>
    /\ report' = NoReport
    /\ valRet' = "none"
    /\ validated' = << >>
    /\ UNCHANGED << valStore, valRoot, valFaults, validatorUnchanged, ret >>

\* ------------------------------------------------------------ system
\* the engine: callers of ExecuteWorkflow and CancelExecution, and the
\* runner goroutines
EngineNext ==
    \/ \E w \in WorkflowIDs, input \in Inputs : ApiExecuteWorkflow(w, input)
    \/ \E e \in ExecIDs : ApiCancelLookup(e)
    \/ \E e \in ExecIDs : ApiCancelFire(e)
    \/ \E e \in ExecIDs : RunnerStart(e)
    \/ \E e \in ExecIDs : RunnerSuccess(e)
    \/ \E e \in ExecIDs : RunnerCancelled(e)
    \/ \E e \in ExecIDs : RunnerDispatch(e)
    \/ \E e \in ExecIDs : StepBegin(e)
    \/ \E e \in ExecIDs, ok \in BOOLEAN : ExecDevice(e, ok)
    \/ \E e \in ExecIDs : ExecWaitElapsed(e)
    \/ \E e \in ExecIDs : ExecWaitCancelled(e)
    \/ \E e \in ExecIDs : ExecSubEnter(e)
    \/ \E e \in ExecIDs : ExecSubReturn(e)
    \/ \E e \in ExecIDs : StepEnd(e)
    \/ \E e \in ExecIDs : RunnerStepFailed(e)
    \/ \E e \in ExecIDs : RunnerStepDone(e)
    \/ \E e \in ExecIDs : RunnerCleanup(e)

\* the subscribers of the streamer
StreamNext ==
    \/ \E e \in ExecIDs : Subscribe(e)
    \/ \E e \in ExecIDs, c \in ChanIDs : Unsubscribe(e, c)
    \/ \E c \in ChanIDs : Receive(c)

Next == EngineNext

Spec == Init /\ [][Next]_vars

\* The streamer with its subscribers, fed by runners of the workflow
\* "wMain" that nobody cancels and that are started one after the other.
\* Broadcast returns nothing to the engine and never blocks it, so the
\* subscribers cannot change what a runner does; a broadcast is one critical
\* section of the streamer, so two runners never broadcast at once.
StreamExecute ==
    /\ runningContexts = {}
    /\ \E input \in Inputs : ApiExecuteWorkflow("wMain", input)

StreamSpecNext ==
    \/ StreamExecute
    \/ \E e \in ExecIDs : RunnerStart(e)
    \/ \E e \in ExecIDs : RunnerSuccess(e)
    \/ \E e \in ExecIDs : RunnerDispatch(e)
    \/ \E e \in ExecIDs : StepBegin(e)
    \/ \E e \in ExecIDs, ok \in BOOLEAN : ExecDevice(e, ok)
    \/ \E e \in ExecIDs : ExecWaitElapsed(e)
    \/ \E e \in ExecIDs : StepEnd(e)
    \/ \E e \in ExecIDs : RunnerStepFailed(e)
    \/ \E e \in ExecIDs : RunnerStepDone(e)
    \/ \E e \in ExecIDs : RunnerCleanup(e)
    \/ StreamNext

SpecStream == Init /\ [][StreamSpecNext]_vars

\* The engine with the REST handlers that call it: an execution of a stored
\* workflow, cancel calls, and the end of the request that started it.
CallerWorkflows == {"wMain", "wOuter"}

CallerNext ==
    \/ \E w \in CallerWorkflows, input \in Inputs : ApiExecuteWorkflow(w, input)
    \/ \E e \in ExecIDs : RequestDone(e)
    \/ \E e \in ExecIDs : ApiCancelLookup(e)
    \/ \E e \in ExecIDs : ApiCancelFire(e)
    \/ \E e \in ExecIDs : RunnerStart(e)
    \/ \E e \in ExecIDs : RunnerSuccess(e)
    \/ \E e \in ExecIDs : RunnerCancelled(e)
    \/ \E e \in ExecIDs : RunnerDispatch(e)
    \/ \E e \in ExecIDs : StepBegin(e)
    \/ \E e \in ExecIDs, ok \in BOOLEAN : ExecDevice(e, ok)
    \/ \E e \in ExecIDs : ExecWaitElapsed(e)
    \/ \E e \in ExecIDs : ExecWaitCancelled(e)
    \/ \E e \in ExecIDs : ExecSubEnter(e)
    \/ \E e \in ExecIDs : ExecSubReturn(e)
    \/ \E e \in ExecIDs : StepEnd(e)
    \/ \E e \in ExecIDs : RunnerStepFailed(e)
    \/ \E e \in ExecIDs : RunnerStepDone(e)
    \/ \E e \in ExecIDs : RunnerCleanup(e)

SpecCaller == Init /\ [][CallerNext]_vars

\* The streamer with its subscribers, fed by a runner of "wMain" that a
\* client may cancel.
CancelStreamNext ==
    \/ StreamSpecNext
    \/ \E e \in ExecIDs : ApiCancelLookup(e)
    \/ \E e \in ExecIDs : ApiCancelFire(e)
    \/ \E e \in ExecIDs : RunnerCancelled(e)
    \/ \E e \in ExecIDs : ExecWaitCancelled(e)

SpecCancelStream == Init /\ [][CancelStreamNext]_vars

\* The engine when nobody cancels: callers of ExecuteWorkflow and the runner
\* goroutines, whose device calls and waits return.  The Go scheduler runs
\* every runnable goroutine again and again, hence the weak fairness of each
\* runner.
UncancelledRunner(e) ==
    \/ RunnerStart(e)
    \/ RunnerSuccess(e)
    \/ RunnerDispatch(e)
    \/ StepBegin(e)
    \/ \E ok \in BOOLEAN : ExecDevice(e, ok)
    \/ ExecWaitElapsed(e)
    \/ ExecSubEnter(e)
    \/ ExecSubReturn(e)
    \/ StepEnd(e)
    \/ RunnerStepFailed(e)
    \/ RunnerStepDone(e)
    \/ RunnerCleanup(e)

UncancelledNext ==
    \/ \E w \in WorkflowIDs, input \in Inputs : ApiExecuteWorkflow(w, input)
    \/ \E e \in ExecIDs : UncancelledRunner(e)

SpecUncancelled ==
    /\ Init
    /\ [][UncancelledNext]_vars
    /\ \A e \in ExecIDs : WF_vars(UncancelledRunner(e))

\* The machine controller over the engine: command handlers, observers and
\* the runners of the executions the commands start.
InitMachine == InitOver(MachineExecIDs) /\ ValidatorInit(<< >>, "none")

MachineRunner(e) ==
    \/ RunnerStart(e)
    \/ RunnerSuccess(e)
    \/ RunnerCancelled(e)
    \/ RunnerDispatch(e)
    \/ StepBegin(e)
    \/ \E ok \in BOOLEAN : ExecDevice(e, ok)
    \/ ExecWaitElapsed(e)
    \/ ExecWaitCancelled(e)
    \/ StepEnd(e)
    \/ RunnerStepFailed(e)
    \/ RunnerStepDone(e)
    \/ RunnerCleanup(e)

MachineNext ==
    \/ \E h \in Handlers : ExecuteCommandUnknown(h)
    \/ \E h \in Handlers : executeHome(h)
    \/ \E h \in Handlers : executeStart(h)
    \/ \E h \in Handlers : executeStop(h)
    \/ \E h \in Handlers : executeStopCancel(h)
    \/ \E h \in Handlers : executeReset(h)
    \/ \E h \in Handlers : CommandExecute(h)
    \/ \E h \in Handlers : CommandExecuteFails(h)
    \/ \E h \in Handlers : CommandFailed(h)
    \/ \E h \in Handlers : CommandSpawn(h)
    \/ \E e \in MachineExecIDs : monitorWorkflow(e)
    \/ \E e \in MachineExecIDs : monitorProductionTick(e)
    \/ \E e \in MachineExecIDs : monitorProductionPoll(e)
    \/ \E e \in MachineExecIDs : MachineRunner(e)

SpecMachine == InitMachine /\ [][MachineNext]_vars

\* The controller homing: home and reset commands, the runner and the
\* observer of each home execution, and a client of the engine API that
\* cancels an execution.  Every goroutine that can take a step takes it in
\* the end; commands and cancel calls arrive or not.
HomingRunner(e) ==
    \/ RunnerStart(e)
    \/ RunnerSuccess(e)
    \/ RunnerCancelled(e)
    \/ RunnerDispatch(e)
    \/ StepBegin(e)
    \/ \E ok \in BOOLEAN : ExecDevice(e, ok)
    \/ StepEnd(e)
    \/ RunnerStepFailed(e)
    \/ RunnerStepDone(e)
    \/ RunnerCleanup(e)

HomingHandler(h) ==
    \/ CommandExecute(h)
    \/ CommandExecuteFails(h)
    \/ CommandFailed(h)
    \/ CommandSpawn(h)

HomingNext ==
    \/ \E h \in Handlers : executeHome(h)
    \/ \E h \in Handlers : executeReset(h)
    \/ \E h \in Handlers : HomingHandler(h)
    \/ \E e \in MachineExecIDs : HomingRunner(e)
    \/ \E e \in MachineExecIDs : monitorWorkflow(e)
    \/ \E e \in MachineExecIDs : ApiCancelLookup(e)
    \/ \E e \in MachineExecIDs : ApiCancelFire(e)

SpecHoming ==
    /\ InitMachine
    /\ [][HomingNext]_vars
    /\ \A e \in MachineExecIDs :
          /\ WF_vars(HomingRunner(e))
          /\ WF_vars(monitorWorkflow(e))
          /\ WF_vars(ApiCancelFire(e))
    /\ \A h \in Handlers : WF_vars(HomingHandler(h))

\* One ValidateByID call over each workflows table and each root.
InitValidator ==
    /\ InitOver(ExecIDs)
    /\ \E store \in ValStores, root \in ValRoots : ValidatorInit(store, root)

ValidatorNext ==
    \/ \E fault \in {"none", "load"} : ValidateByID(fault)
    \/ \E fault \in {"none", "device"} : validateDeviceStep(fault)
    \/ validateOtherStep
    \/ \E fault \in {"none", "exists", "getWorkflow.exists",
                      "getWorkflow.load"} : validateSubWorkflowStep(fault)
    \/ walkReturn
    \/ ValidateByIDReturn
    \/ ValidateAgain

SpecValidator == InitValidator /\ [][ValidatorNext]_vars

\* ------------------------------------------------------------ properties
RunnerActive ==
    {"spawned", "loop", "step", "executing", "stepend", "after", "exit"}

RunnerReturned == {"exit", "done"}

TerminalEventTypes ==
    {"execution.completed", "execution.failed", "execution.cancelled"}

TerminalEventOf(status) ==
    CASE status = "success"   -> "execution.completed"
      [] status = "failed"    -> "execution.failed"
      [] status = "cancelled" -> "execution.cancelled"
      [] OTHER                -> "none"

HasEvent(e, type) ==
    \E k \in 1..Len(published[e]) : published[e][k].type = type

\* the wait step the runner dispatched returned the cancellation error
WaitInterrupted(e) ==
    /\ xres[e].state = "err"
    /\ CurrentStep(e).type = "wait"
    /\ xres[e].error = LeafError("context canceled")

\* C1: once the runner of an execution has returned, exactly one terminal
\* event has been handed to publishEvent for it, its type is the one of the
\* execution's terminal status, and it is the last event of the execution.
C1_ExactlyOneTerminalEvent ==
    \A e \in ExecIDs :
        pc[e] \in RunnerReturned =>
            LET n == Len(published[e])
                terminal == {k \in 1..n :
                                published[e][k].type \in TerminalEventTypes}
            IN /\ Cardinality(terminal) = 1
               /\ n \in terminal
               /\ published[e][n].type = TerminalEventOf(execMem[e].status)

\* C2: when the cancel fired while a wait step was sleeping (the wait
\* returned the context's error), the execution ends cancelled, not failed,
\* execution.cancelled is published and the wait step has no step.completed.
C2_CancelDuringWaitIsCancelled ==
    \A e \in ExecIDs :
        (pc[e] \in RunnerReturned /\ WaitInterrupted(e)) =>
            /\ execMem[e].status = "cancelled"
            /\ HasEvent(e, "execution.cancelled")
            /\ \A k \in 1..Len(published[e]) :
                   ~(/\ published[e][k].type = "step.completed"
                     /\ published[e][k].step_index = idx[e])

\* C3: once cancel(E) has returned success and the runner of E has exited,
\* the persisted status of E is cancelled, success or failed; it is not left
\* at pending or running.
C3_PersistedStatusAfterCancel ==
    \A e \in ExecIDs :
        (ctxDone[e] /\ pc[e] = "done") => dbExec[e].status \in TerminalStatus

\* C4: an execution record (the runner's and the persisted one) moves
\* pending -> running -> one of success, failed, cancelled and never leaves
\* a terminal status; completed_at is unset while pending or running and set
\* whenever the status is terminal.
C4_CompletedAtMatches(rec) ==
    /\ rec.status \in {"none", "pending", "running"} => ~rec.completed_at
    /\ rec.status \in TerminalStatus => rec.completed_at

C4_StatusStep(old, new) ==
    \/ new = old
    \/ old = "none" /\ new = "pending"
    \/ old = "pending" /\ new = "running"
    \/ old = "running" /\ new \in TerminalStatus

C4_Inv ==
    \A e \in ExecIDs :
        C4_CompletedAtMatches(dbExec[e]) /\ C4_CompletedAtMatches(execMem[e])

C4_Step ==
    \A e \in ExecIDs :
        /\ C4_StatusStep(dbExec[e].status, dbExec'[e].status)
        /\ C4_StatusStep(execMem[e].status, execMem'[e].status)

C4_TerminatesOnce == [](C4_Inv) /\ [][C4_Step]_vars

\* a persisted execution that went through running and ended failed
C4_Witness ==
    \E e \in ExecIDs :
        /\ pc[e] = "done"
        /\ dbExec[e].status = "failed"
        /\ dbExec[e].completed_at

\* C5: when a step of an execution fails, the execution ends failed, no later
\* step is dispatched, the step's error message is on the step row and on
\* the execution record, and execution.failed is published.
C5_StepFailureRecorded ==
    \A e \in ExecIDs :
        (pc[e] \in RunnerReturned /\ xres[e].state = "err") =>
            /\ execMem[e].status = "failed"
            /\ \A k \in 1..Len(dbSteps[e]) : dbSteps[e][k].step_index <= idx[e]
            /\ execMem[e].error = xres[e].error
            /\ ~ctxDone[e] =>
                  /\ dbExec[e].error = xres[e].error
                  /\ \E k \in 1..Len(dbSteps[e]) :
                        /\ dbSteps[e][k].step_index = idx[e]
                        /\ dbSteps[e][k].error = xres[e].error
            /\ HasEvent(e, "execution.failed")

\* C6: step 0 receives the execution input, step i+1 receives the output of
\* step i, and a successful execution is persisted with the output of its
\* last step.
C6_DataThreaded ==
    \A e \in ExecIDs :
        /\ \A k \in 1..Len(dbSteps[e]) :
              LET row == dbSteps[e][k]
              IN IF row.step_index = 0
                 THEN row.input = execInput[e]
                 ELSE \A j \in 1..Len(dbSteps[e]) :
                        dbSteps[e][j].step_index = row.step_index - 1
                            => row.input = dbSteps[e][j].output
        /\ (/\ pc[e] \in RunnerReturned
            /\ dbExec[e].status = "success"
            /\ Len(dbSteps[e]) > 0)
           => dbExec[e].output = dbSteps[e][Len(dbSteps[e])].output

\* C7: the running table holds the cancel handle and the tracker of an
\* execution exactly while its runner goroutine is active, whichever way the
\* runner ends.
C7_RunningTableWhileActive ==
    \A e \in ExecIDs :
        /\ (e \in runningContexts) <=> (pc[e] \in RunnerActive)
        /\ (e \in executionTrackers) <=> (pc[e] \in RunnerActive)

\* a runner that ended by cancellation and has left the table
C7_Witness ==
    \E e \in ExecIDs :
        /\ pc[e] = "done"
        /\ execMem[e].status = "cancelled"
        /\ e \notin runningContexts
        /\ e \notin executionTrackers

\* C8: a cancel call gets past its lookup only if the execution is in the
\* running table at that moment, and then returns success having fired the
\* handle of that execution and changed nothing else; otherwise it returns
\* not-found and changes nothing.  Cancelling an execution whose handle has
\* already fired succeeds and leaves every context as it was.
C8_OthersUnchanged ==
    UNCHANGED << nextExec, dbExec, dbSteps, dbEvents, execMem, execWf,
                 execInput, runningContexts, executionTrackers, trackerStack,
                 pc, idx, xstack, xres, published, wsLog, streamVars >>

C8_Step ==
    \A e \in ExecIDs :
        /\ (e \in cancelPending' /\ e \notin cancelPending)
               => (e \in runningContexts /\ C8_OthersUnchanged
                   /\ ctxDone' = ctxDone)
        /\ (ret' = [op |-> "cancel", id |-> e, err |-> "none"])
               => /\ e \in cancelPending
                  /\ ctxDone' = [ctxDone EXCEPT ![e] = TRUE]
                  /\ C8_OthersUnchanged
        /\ (ret' = [op |-> "cancel", id |-> e, err |-> "not_found"])
               => /\ e \notin runningContexts
                  /\ ctxDone' = ctxDone
                  /\ cancelPending' = cancelPending
                  /\ C8_OthersUnchanged
        /\ (ctxDone'[e] # ctxDone[e])
               => (ctxDone'[e]
                   /\ ret' = [op |-> "cancel", id |-> e, err |-> "none"])

C8_CancelLooksUpTable == [][C8_Step]_vars

\* a cancel has fired the handle of a still-registered execution and a
\* second cancel of it is past its lookup
C8_Witness ==
    \E e \in ExecIDs :
        /\ ctxDone[e]
        /\ e \in runningContexts
        /\ e \in cancelPending

\* C9: when ExecuteWorkflow returns a load or parse error, it returns no
\* execution id and has created no execution record, spawned no runner,
\* published nothing and left the running table as it was.
C9_Step ==
    (ret'.op = "execute" /\ ret'.err \in {"load", "parse"}) =>
        /\ ret'.id = 0
        /\ UNCHANGED << nextExec, dbExec, dbSteps, dbEvents, execMem, execWf,
                        execInput, ctxDone, runningContexts,
                        executionTrackers, trackerStack, pc, idx, xstack,
                        xres, published, wsLog, cancelPending, streamVars >>

C9_LoadFailureCreatesNothing == [][C9_Step]_vars

\* a failed ExecuteWorkflow call while another execution is running
C9_Witness ==
    /\ ret.op = "execute"
    /\ ret.err = "parse"
    /\ runningContexts # {}

\* C10: a broadcast for execution e appends the event to the buffer of every
\* subscriber of e that has room, leaves a full buffer (and every channel
\* not subscribed to e) as it was, and the publishing runner step is enabled
\* whatever the buffers hold.
C10_Step ==
    \A e \in ExecIDs :
        Len(published'[e]) = Len(published[e]) + 1 =>
            LET ev == published'[e][Len(published'[e])]
            IN \A c \in ChanIDs :
                  IF InSeq(c, subscribers[e]) /\ Len(chanBuf[c]) < ChanCap
                  THEN chanBuf'[c] = Append(chanBuf[c], ev)
                  ELSE chanBuf'[c] = chanBuf[c]

C10_NeverBlocks ==
    \A e \in ExecIDs :
        /\ pc[e] = "step" => ENABLED StepBegin(e)
        /\ pc[e] = "stepend" => ENABLED StepEnd(e)

C10_BroadcastNonBlocking == [](C10_NeverBlocks) /\ [][C10_Step]_vars

\* the last event of e was dropped for a full subscriber and delivered to a
\* subscriber registered after it
C10_Witness ==
    \E e \in ExecIDs :
        \E i, j \in 1..Len(subscribers[e]) :
            LET c1 == subscribers[e][i]
                c2 == subscribers[e][j]
                n == Len(published[e])
            IN /\ i < j
               /\ n > 0
               /\ Len(chanBuf[c1]) = ChanCap
               /\ chanBuf[c1][ChanCap] # published[e][n]
               /\ Len(chanBuf[c2]) > 0
               /\ chanBuf[c2][Len(chanBuf[c2])] = published[e][n]

\* s is a subsequence of t: s embeds into t in order
RECURSIVE IsSubseq(_, _)
IsSubseq(s, t) ==
    IF Len(s) = 0 THEN TRUE
    ELSE IF Len(t) = 0 THEN FALSE
    ELSE IF Head(s) = Head(t) THEN IsSubseq(Tail(s), Tail(t))
    ELSE IsSubseq(s, Tail(t))

\* C11: for every subscriber channel, each event its consumer received
\* stands in the events broadcast for the channel's execution after the event
\* received before it, and the events still buffered follow the last
\* received one in broadcast order: what is received is a subsequence of what
\* was broadcast for that execution (nothing twice, nothing out of order,
\* nothing of another execution).
C11_ReceivedIsSubsequence ==
    \A c \in ChanIDs :
        chanState[c] # "unused" =>
            LET e == chanExec[c]
                n == Len(published[e])
            IN /\ recvIndex[c] >= 0
               /\ recvIndex[c] <= n
               /\ IsSubseq(chanBuf[c], SubSeq(published[e], recvIndex[c] + 1, n))
               /\ \A k \in 1..Len(chanBuf[c]) : chanBuf[c][k].execution_id = e

\* a consumer has received an event, the event broadcast next was dropped
\* for it, and an event broadcast after the dropped one is buffered for it
C11_Witness ==
    \E c \in ChanIDs :
        /\ chanState[c] = "open"
        /\ recvIndex[c] > 0
        /\ Len(chanBuf[c]) > 0
        /\ LET e == chanExec[c]
           IN /\ recvIndex[c] + 1 < Len(published[e])
              /\ Head(chanBuf[c]) # published[e][recvIndex[c] + 1]

\* C12: a step closes a channel only by removing its first entry from the
\* subscriber list of one execution, leaving every other list and every
\* other channel as they were; a step that shortens a list closes the
\* removed handle; unsubscribe of a handle that is not in the list of the
\* execution (already removed, or never registered for it) changes nothing.
C12_Step ==
    /\ \A c \in ChanIDs :
          (chanState'[c] = "closed" /\ chanState[c] # "closed") =>
              \E e \in ExecIDs :
                  /\ chanState[c] = "open"
                  /\ InSeq(c, subscribers[e])
                  /\ ~InSeq(c, subscribers'[e])
                  /\ Len(subscribers'[e]) = Len(subscribers[e]) - 1
                  /\ IsSubseq(subscribers'[e], subscribers[e])
                  /\ \A f \in ExecIDs \ {e} : subscribers'[f] = subscribers[f]
                  /\ \A d \in ChanIDs \ {c} :
                         /\ chanState'[d] = chanState[d]
                         /\ chanBuf'[d] = chanBuf[d]
    /\ \A e \in ExecIDs :
          Len(subscribers'[e]) < Len(subscribers[e]) =>
              \E c \in ChanIDs :
                  /\ InSeq(c, subscribers[e])
                  /\ ~InSeq(c, subscribers'[e])
                  /\ chanState'[c] = "closed"
    /\ \A e \in ExecIDs, c \in ChanIDs :
          (Unsubscribe(e, c) /\ ~InSeq(c, subscribers[e])) =>
              UNCHANGED << subscribers, chanState, chanBuf >>

C12_UnsubscribeRemovesAndCloses == [][C12_Step]_vars

\* a handle has been removed and closed while a second subscriber of the
\* same execution is still registered and open
C12_Witness ==
    \E e \in ExecIDs, c1, c2 \in ChanIDs :
        /\ chanExec[c1] = e
        /\ chanState[c1] = "closed"
        /\ ~InSeq(c1, subscribers[e])
        /\ InSeq(c2, subscribers[e])
        /\ chanState[c2] = "open"

\* a step in which ExecuteCommand call h is accepted as command cmd
Accepts(h, cmd) == hcmd[h] # cmd /\ hcmd'[h] = cmd

\* C13: when a stop command is accepted, the cancel request it hands to the
\* engine is for the production execution started by the preceding accepted
\* start command, wherever the start handler stands: that start has created
\* an execution of the production workflow, and the id the stop handler reads
\* from currentExecID is the id of that execution.
C13_Step ==
    \A h \in Handlers :
        Accepts(h, "stop") =>
            /\ lastStart > 0
            /\ execWf[lastStart] = productionWorkflowID
            /\ currentExecID = lastStart

C13_StopCancelsProduction == [][C13_Step]_vars

\* the observer of execution e takes its last step
ObserverEnds(e) == monPc[e] = "watch" /\ monPc'[e] = "done"

\* C14: an accepted home command moves the controller from stopped to homing
\* and its handler starts the home workflow; the controller enters ready only
\* in a step of an observer of a home execution with persisted status
\* success, and then the execution of the home command accepted last exists
\* and has status success; the handler sets error when starting the workflow
\* failed, and the observer sets error when the execution is failed.
C14_Step ==
    /\ \A h \in Handlers :
          /\ Accepts(h, "home") =>
                currentState = "stopped" /\ currentState' = "homing"
          /\ (hcmd[h] = "home" /\ hpc[h] = "exec" /\ hpc'[h] = "created") =>
                /\ hexec'[h] \in MachineExecIDs
                /\ execWf'[hexec'[h]] = homeWorkflowID
                /\ hexec'[h] \in runningContexts'
          /\ (hcmd[h] = "home" /\ hpc[h] = "failed" /\ hpc'[h] # "failed") =>
                currentState' = "error"
    /\ (currentState # "ready" /\ currentState' = "ready") =>
          /\ \E e \in MachineExecIDs :
                /\ ObserverEnds(e)
                /\ execWf[e] = homeWorkflowID
                /\ dbExec[e].status = "success"
          /\ lastHome > 0
          /\ dbExec[lastHome].status = "success"
    /\ \A e \in MachineExecIDs :
          (ObserverEnds(e) /\ execWf[e] = homeWorkflowID
              /\ dbExec[e].status = "failed") => currentState' = "error"

C14_HomeReachesReady == [][C14_Step]_vars

\* C15: the observer of a workflow execution sets the target state when the
\* execution is persisted success; sets error, with the failure message of
\* the execution (the error its failing step returned) as error message,
\* when it is persisted failed; and ends without changing the state when it
\* is persisted cancelled.
C15_Step ==
    \A e \in MachineExecIDs :
        ObserverEnds(e) =>
            /\ dbExec[e].status = "success" =>
                  currentState' = monTarget[e] /\ errorMessage' = NoError
            /\ dbExec[e].status = "failed" =>
                  /\ currentState' = "error"
                  /\ xres[e].state = "err"
                  /\ errorMessage' = xres[e].error
            /\ dbExec[e].status = "cancelled" =>
                  UNCHANGED << currentState, errorMessage >>

C15_ObserverOutcome == [][C15_Step]_vars

\* the controller fields a rejected command must leave alone
ControllerFields ==
    << currentState, errorMessage, currentExecID, productionCycles >>

\* what starting or cancelling an execution would change in the engine
EngineFootprint ==
    << nextExec, dbExec, execMem, runningContexts, executionTrackers, ctxDone,
       cancelPending >>

\* C16: home is accepted only in stopped, start only in ready, stop only in
\* running and reset only in error or emergency; a command that is rejected
\* (wrong state, or unknown command) returns an error, starts and cancels
\* nothing and leaves state, error message, execution id and production
\* cycles as they were.
C16_Step ==
    /\ \A h \in Handlers :
          /\ Accepts(h, "home") => currentState = "stopped"
          /\ Accepts(h, "start") => currentState = "ready"
          /\ Accepts(h, "stop") => currentState = "running"
    /\ ret' = CommandRet(0, "none") =>
          currentState \in {"error", "emergency"}
    /\ ret' \in {Rejected(cmd) : cmd \in {"home", "start", "stop", "reset"}}
                \cup {CommandRet(0, "unknown")} =>
          /\ UNCHANGED ControllerFields
          /\ UNCHANGED EngineFootprint
          /\ UNCHANGED << hcmd, hpc, hexec, monPc, monTarget, mu >>

C16_RejectedChangesNothing == [][C16_Step]_vars

\* a stop is rejected in stopping while production, started late, is running
C16_Witness ==
    /\ ret = Rejected("stop")
    /\ currentState = "stopping"
    /\ \E e \in MachineExecIDs :
          execWf[e] = productionWorkflowID /\ e \in runningContexts

\* the rows of the store and the positions of runners and step executors
PersistedAndSteps ==
    << nextExec, dbExec, dbSteps, dbEvents, pc, idx, xstack, xres >>

\* a step of the call that holds c.mu, a step that takes or releases c.mu,
\* or a step whose critical section writes a field guarded by c.mu
UnderControllerLock ==
    \/ mu # 0 /\ hpc'[mu] # hpc[mu]
    \/ mu' # mu
    \/ ControllerFields' # ControllerFields

\* C17: the controller lock is held only by a stop handler between the
\* lookup and the cancel() of CancelExecution, the holder can always take
\* the step that releases it (so no task waits for the lock forever), and no
\* step taken under the lock writes a row of the store or runs a step of an
\* execution.
C17_HolderCanRelease ==
    mu # 0 => (hpc[mu] = "cancel" /\ ENABLED executeStopCancel(mu))

C17_Step == UnderControllerLock => UNCHANGED PersistedAndSteps

C17_LocksOnlyInMemory == [](C17_HolderCanRelease) /\ [][C17_Step]_vars

\* a stop handler holds c.mu while a runner is inside a step and a start
\* handler waits for the lock to store its execution id
C17_Witness ==
    /\ mu # 0
    /\ \E g \in Handlers : g # mu /\ hpc[g] = "created"
    /\ \E e \in MachineExecIDs : pc[e] = "executing"

\* the workflows a stored, parseable workflow references from its steps
References(id) ==
    IF id \in DOMAIN valStore /\ ParseOk(id)
    THEN { StepsOf(id)[k].workflow_id : k \in
              { j \in 1..Len(StepsOf(id)) : StepsOf(id)[j].type = "workflow" } }
    ELSE {}

\* the workflows reached from the set ids over at most n more references
RECURSIVE ReachedFrom(_, _)
ReachedFrom(ids, n) ==
    IF n = 0 THEN ids
    ELSE ReachedFrom(ids \cup UNION { References(id) : id \in ids }, n - 1)

\* the stored graph has a cycle through the root
CycleThroughRoot ==
    valRoot \in ReachedFrom(References(valRoot), Cardinality(ValStored))

\* the WORKFLOW_050 issues of the report
CycleIssues ==
    { k \in 1..Len(report.errors) : report.errors[k].code = "WORKFLOW_050" }

\* ValidateByID has returned a report and no storage call failed
Validated == valPc = "returned" /\ valRet = "report" /\ valFaults = 0

\* C18: when the stored graph has a cycle through the root, the report of
\* validating the root holds exactly one WORKFLOW_050 issue, however many
\* steps reference a workflow on the current path.
C18_ExactlyOneCycleIssue ==
    (Validated /\ CycleThroughRoot) => Cardinality(CycleIssues) = 1

\* workflow a holds a workflow step that references b
IsReference(a, b) == b \in References(a)

\* what C19 asks of one WORKFLOW_050 issue
WellFormedCycle(issue) ==
    LET c == issue.cycle
    IN  /\ Len(c) >= 2
        /\ c[1] = c[Len(c)]
        /\ c[Len(c) - 1] = issue.workflow_id
        /\ \A k \in 1..(Len(c) - 1) : IsReference(c[k], c[k + 1])
        /\ \A j, k \in 1..(Len(c) - 1) : j # k => c[j] # c[k]

\* the last error of the report is a WORKFLOW_050 added in this step
AddsCycleIssue ==
    /\ Len(report'.errors) = Len(report.errors) + 1
    /\ report'.errors[Len(report'.errors)].code = "WORKFLOW_050"

\* C19: every WORKFLOW_050 issue carries as meta.cycle the ids of the
\* traversal path from the first occurrence of the referenced workflow up to
\* the referencing workflow, followed by the referenced id: first and last
\* element are equal, each consecutive pair is a workflow-step reference of
\* the store, and a report with such an issue has valid = false.
C19_Inv ==
    /\ \A k \in CycleIssues : WellFormedCycle(report.errors[k])
    /\ (valRet = "report" /\ CycleIssues # {}) => ~report.valid

C19_Step ==
    AddsCycleIssue =>
        LET c == report'.errors[Len(report'.errors)].cycle
            n == Len(walkStack)
        IN  /\ Len(c) >= 2
            /\ Len(c) - 1 <= n
            /\ SubSeq(c, 1, Len(c) - 1) = SubSeq(walkStack, n - Len(c) + 2, n)
            /\ c[Len(c)] = TopStep.workflow_id
            /\ c[1] = c[Len(c)]

C19_CyclePathReported == [](C19_Inv) /\ [][C19_Step]_vars

\* a report with the cycle [A, B, A] and with a cycle that starts above
\* the bottom of the stack (A -> B -> B)
C19_Witness ==
    /\ valRet = "report"
    /\ \E k \in CycleIssues : report.errors[k].cycle[1] # valRoot
    /\ \E k \in CycleIssues : report.errors[k].cycle = << "A", "B", "A" >>

\* no element of the sequence occurs twice
NoRepeat(list) ==
    \A j, k \in 1..Len(list) : j # k => list[j] # list[k]

\* the issues a step appends to list are not about workflow id
AddsNothingAbout(id, old, new) ==
    \A k \in (Len(old) + 1)..Len(new) : new[k].workflow_id # id

\* C20: within one ValidateByID call validateWorkflow is entered at most
\* once for each workflow, no issue is in the report twice, and a workflow
\* step that references an already-done workflow enters nothing and adds no
\* issue about that workflow.
C20_Inv ==
    /\ NoRepeat(validated)
    /\ NoRepeat(report.errors)
    /\ NoRepeat(report.warnings)

C20_Step ==
    (InLoop /\ TopStep.type = "workflow" /\ TopStep.workflow_id \in walkDone)
        => /\ validated' = validated
           /\ walkStack' = walkStack
           /\ AddsNothingAbout(TopStep.workflow_id, report.errors,
                               report'.errors)
           /\ AddsNothingAbout(TopStep.workflow_id, report.warnings,
                               report'.warnings)

C20_ValidatedOnce == [](C20_Inv) /\ [][C20_Step]_vars

\* C, which has findings of its own, is referenced by A directly and
\* through B, and the report is out
C20_Witness ==
    /\ valRet = "report"
    /\ valRoot = "A"
    /\ {"B", "C"} \subseteq References("A")
    /\ "C" \in References("B")
    /\ \E k \in 1..Len(report.errors) : report.errors[k].workflow_id = "C"
    /\ \E k \in 1..Len(report.warnings) : report.warnings[k].workflow_id = "C"

\* the list is in the order of (workflow id, path, code, message)
Sorted(list) ==
    \A j, k \in 1..Len(list) : j < k => ~IssueLess(list[k], list[j])

\* two issues equal on all four keys
SameKeys(a, b) == ~IssueLess(a, b) /\ ~IssueLess(b, a)

\* the position of issue x in a list without repeats
PositionIn(list, x) == CHOOSE k \in 1..Len(list) : list[k] = x

\* new holds the issues of old, those with equal keys in the order of old
StableRearrangement(old, new) ==
    /\ Len(new) = Len(old)
    /\ { new[k] : k \in 1..Len(new) } = { old[k] : k \in 1..Len(old) }
    /\ \A j, k \in 1..Len(old) :
          (j < k /\ SameKeys(old[j], old[k])) =>
              PositionIn(new, old[j]) < PositionIn(new, old[k])

\* C21: validating the same stored graph twice yields identical reports;
\* the errors and the warnings of a report are each ordered by (workflow id,
\* path, code, message), and finalize keeps the collected issues, those
\* equal on all four keys in the order they were collected in.
C21_Inv ==
    valRet = "report" =>
        /\ Sorted(report.errors)
        /\ Sorted(report.warnings)
        /\ prevReport # NoReport => report = prevReport

C21_Step ==
    (valPc = "walking" /\ valPc' = "returned") =>
        /\ StableRearrangement(report.errors, report'.errors)
        /\ StableRearrangement(report.warnings, report'.warnings)

C21_SameReportTwice == [](C21_Inv) /\ [][C21_Step]_vars

\* the second report is out; C was validated before B and both have errors,
\* so the errors were collected in another order than they are reported in
C21_Witness ==
    /\ valRet = "report"
    /\ prevReport # NoReport
    /\ validated = << "A", "C", "B" >>
    /\ \E k \in 1..Len(report.errors) : report.errors[k].workflow_id = "B"
    /\ \E k \in 1..Len(report.errors) : report.errors[k].workflow_id = "C"
    /\ Len(report.warnings) >= 2

\* the report holds an error with this code for workflow id
HasError(code, id) ==
    \E k \in 1..Len(report.errors) :
        report.errors[k].code = code /\ report.errors[k].workflow_id = id

\* C22: every workflow validateWorkflow was entered for that has
\* loop.enabled = true and loop.max_count < 0 has a WORKFLOW_005 error, and
\* one with an empty steps list has a WORKFLOW_004 error (the empty list
\* skips the per-step checks and nothing else).
C22_LoopCheckedAlways ==
    \A k \in 1..Len(validated) :
        LET id == validated[k]
            def == valStore[id]
        IN  /\ (def.loop.enabled /\ def.loop.max_count < 0) =>
                  HasError("WORKFLOW_005", id)
            /\ def.steps = << >> => HasError("WORKFLOW_004", id)

\* the required parameters of the step's operation that step.parameters
\* does not hold
MissingRequired(step) ==
    { p \in { requiredParamsForOp(step.operation)[k] :
                k \in 1..Len(requiredParamsForOp(step.operation)) } :
        step.parameters.nil \/ p \notin step.parameters.keys }

\* the issues a step appends to a list
Added(old, new) == { new[k] : k \in (Len(old) + 1)..Len(new) }

\* C23: a device step with a supported operation gets exactly one DEVICE_020
\* warning for each required parameter that step.parameters lacks, no other
\* warning and no error about a parameter that is absent; a report whose
\* only issues are such warnings has valid = true.
C23_Step ==
    (InLoop /\ TopStep.type = "device" /\ TopStep.operation \in SupportedOps)
        => LET warned == Added(report.warnings, report'.warnings)
               errs == Added(report.errors, report'.errors)
           IN  /\ \A p \in MissingRequired(TopStep) :
                     Cardinality({ w \in warned :
                         /\ w.code = "DEVICE_020"
                         /\ w.param = p
                         /\ w.severity = "warning"
                         /\ w.workflow_id = TopWorkflow
                         /\ w.step_index = TopIndex }) = 1
               /\ Len(report'.warnings) - Len(report.warnings)
                     = Cardinality(MissingRequired(TopStep))
               /\ \A e \in errs :
                     e.code \in {"STEP_001", "DEVICE_010", "DEVICE_001",
                                 "DEVICE_002", "DEVICE_999", "DEVICE_021"}
               /\ \A e \in errs : e.code = "DEVICE_021" =>
                     "register_type" \notin MissingRequired(TopStep)

C23_Inv ==
    (valRet = "report" /\ report.errors = << >>) => report.valid

C23_MissingParamsWarnOnly == [](C23_Inv) /\ [][C23_Step]_vars

\* the report of a graph whose only problem is the missing "value" of a
\* write step: one DEVICE_020 warning, valid
C23_Witness ==
    /\ valRet = "report"
    /\ report.valid
    /\ Len(report.warnings) = 1
    /\ report.warnings[1].code = "DEVICE_020"
    /\ report.warnings[1].param = "value"

\* the codes under which a storage failure of the traversal is reported
FailureCodes == {"WORKFLOW_901", "WORKFLOW_999", "DEVICE_999"}

\* the workflow steps of id whose target is a stored workflow
StoredReferences(id) ==
    { j \in 1..Len(StepsOf(id)) :
        /\ StepsOf(id)[j].type = "workflow"
        /\ StepsOf(id)[j].workflow_id \in DOMAIN valStore }

\* the report holds an error with this code for step j of workflow id
HasStepError(code, id, j) ==
    \E k \in 1..Len(report.errors) :
        /\ report.errors[k].code = code
        /\ report.errors[k].workflow_id = id
        /\ report.errors[k].step_index = j - 1

\* C24: ValidateByID returns an error, and then no report, only from the
\* load of the root workflow; a storage call that fails during the
\* traversal adds an error with code WORKFLOW_901, WORKFLOW_999 or
\* DEVICE_999 and a definition that does not parse adds WORKFLOW_900, the
\* call goes on, and the report it returns covers every step of every
\* workflow entered and every stored workflow they reference, except behind
\* a reference whose lookup failed.
C24_Step ==
    /\ (valRet # "error" /\ valRet' = "error") =>
          /\ valPc = "idle"
          /\ report' = NoReport
          /\ (valRoot \notin DOMAIN valStore \/ valFaults' = valFaults + 1)
    /\ (valPc = "walking" /\ valFaults' # valFaults) =>
          /\ valPc' = "walking"
          /\ valRet' = "none"
          /\ \E e \in Added(report.errors, report'.errors) :
                e.code \in FailureCodes
    /\ (InLoop /\ TopStep.type = "workflow"
           /\ TopStep.workflow_id \in DOMAIN valStore
           /\ ~ParseOk(TopStep.workflow_id)
           /\ TopStep.workflow_id \notin walkDone
           /\ valFaults' = valFaults) =>
          /\ valPc' = "walking"
          /\ \E e \in Added(report.errors, report'.errors) :
                e.code = "WORKFLOW_900"

C24_Inv ==
    valRet = "report" =>
        \A k \in 1..Len(validated) :
            /\ validated[k] \in walkDone
            /\ \A j \in StoredReferences(validated[k]) :
                  \/ StepsOf(validated[k])[j].workflow_id \in walkDone
                  \/ HasStepError("WORKFLOW_999", validated[k], j)

C24_OnlyRootLoadAborts == [](C24_Inv) /\ [][C24_Step]_vars

\* the load of B failed and was reported, and C, referenced after B, was
\* validated all the same
C24_Witness ==
    /\ valRet = "report"
    /\ HasError("WORKFLOW_901", "B")
    /\ validated = << "A", "C" >>
    /\ \E k \in 1..Len(report.errors) : report.errors[k].workflow_id = "C"

\* the engine has attempted a step of execution e: executeStep got as far
\* as the tracker update of a step
Attempted(e) ==
    \E k \in 1..Len(published[e]) : published[e][k].type = "step.started"

\* C25: from the first step the engine attempts of an execution on, the
\* persisted execution record carries the hierarchical id and the call stack
\* of the step attempted last, while the execution runs as well as after it
\* ended.
C25_TrackingPersisted ==
    \A e \in ExecIDs :
        Attempted(e) =>
            /\ dbExec[e].current_step_id =
                   BuildHierarchicalStepID(trackerStack[e])
            /\ dbExec[e].call_stack = trackerStack[e]

\* C26: the step records persisted for one execution have pairwise different
\* hierarchical step ids, whatever step numbers the workflow definition
\* carries.
C26_HierarchicalIdUnique ==
    \A e \in ExecIDs :
        \A j, k \in 1..Len(dbSteps[e]) :
            j # k => dbSteps[e][j].hierarchical_step_id #
                     dbSteps[e][k].hierarchical_step_id

\* the tracker's call stack at the moment step i of the run of e started:
\* the root frame pushed by ExecuteWorkflow with the number of step i
StackAtStart(e, i) ==
    << [workflow_id |-> execWf[e],
        program_name |-> ParseWorkflow(execWf[e]).program_name,
        step_number |-> ParseWorkflow(execWf[e]).steps[i + 1].number] >>

\* program_name:S<step_number> of every frame, root first, joined by ':'
RECURSIVE Rendering(_)
Rendering(stack) ==
    IF stack = << >>
    THEN ""
    ELSE LET n == Len(stack)
             own == stack[n].program_name \o ":S" \o stack[n].step_number
         IN IF n = 1 THEN own
            ELSE Rendering(SubSeq(stack, 1, n - 1)) \o ":" \o own

\* C27: every persisted step record has the depth and the hierarchical step
\* id of the tracker's call stack at the start of its step: the length of
\* the stack, and program_name:S<step_number> of each frame joined by ':'.
C27_StepRecordTracksStack ==
    \A e \in ExecIDs :
        \A k \in 1..Len(dbSteps[e]) :
            LET row == dbSteps[e][k]
                stack == StackAtStart(e, row.step_index)
            IN /\ row.depth = Len(stack)
               /\ row.hierarchical_step_id = Rendering(stack)

\* some step of the runner goroutine of e
RunnerStep(e) ==
    \/ RunnerStart(e)
    \/ RunnerSuccess(e)
    \/ RunnerCancelled(e)
    \/ RunnerDispatch(e)
    \/ StepBegin(e)
    \/ \E ok \in BOOLEAN : ExecDevice(e, ok)
    \/ ExecWaitElapsed(e)
    \/ ExecSubEnter(e)
    \/ ExecSubReturn(e)
    \/ StepEnd(e)
    \/ RunnerStepFailed(e)
    \/ RunnerStepDone(e)
    \/ RunnerCleanup(e)

\* C28: once ExecuteWorkflow has returned an execution id, the end of the
\* caller's request context changes nothing of the execution: its scope is
\* not fired and its runner goes on; the scope of an execution fires only in
\* a cancel call for that execution.
C28_Step ==
    \A e \in ExecIDs :
        /\ (reqCtx[e] = "live" /\ reqCtx'[e] = "done") =>
              UNCHANGED << engineVars, streamVars >>
        /\ (~ctxDone[e] /\ ctxDone'[e]) =>
              /\ e \in cancelPending
              /\ ret' = [op |-> "cancel", id |-> e, err |-> "none"]

C28_Inv ==
    \A e \in ExecIDs :
        (reqCtx[e] = "done" /\ pc[e] \notin {"idle", "done"}) =>
            ENABLED RunnerStep(e)

C28_ExecutionOutlivesCaller == [](C28_Inv) /\ [][C28_Step]_vars

\* the request that started the execution has ended while a step of it
\* executes, and the scope of the execution has not fired
C28_Witness ==
    \E e \in ExecIDs :
        /\ reqCtx[e] = "done"
        /\ pc[e] = "executing"
        /\ ~ctxDone[e]
        /\ e \in runningContexts

\* the persisted record of step i of execution e has one of these statuses
StepRecordIn(e, i, statuses) ==
    \E k \in 1..Len(dbSteps[e]) :
        /\ dbSteps[e][k].step_index = i
        /\ dbSteps[e][k].status \in statuses

\* C29: the events published for an execution are, step after step,
\* step.started(i) followed by exactly one of step.completed(i) and
\* step.failed(i); step.started(i) is out before the executor runs step i and
\* the closing event only after it returned; the record of step i is running
\* between the two events and success or failed, as the closing event says,
\* from then on.
C29_StepEventsBracketExecutor ==
    \A e \in ExecIDs :
        LET evs == published[e]
        IN /\ \A k \in 1..Len(evs) :
                /\ evs[k].step_index = (k - 1) \div 2
                /\ IF k % 2 = 1
                   THEN evs[k].type = "step.started"
                   ELSE evs[k].type \in {"step.completed", "step.failed"}
           /\ pc[e] \in {"executing", "stepend"} =>
                /\ Len(evs) = 2 * idx[e] + 1
                /\ StepRecordIn(e, idx[e], {"running"})
           /\ pc[e] \in {"step", "loop"} => Len(evs) = 2 * idx[e]
           /\ \A k \in 1..Len(evs) :
                k % 2 = 0 =>
                    StepRecordIn(e, evs[k].step_index,
                        IF evs[k].type = "step.completed"
                        THEN {"success"} ELSE {"failed"})

\* the runner of e is at the head of its loop with a step left to run
AtStepBoundary(e) ==
    /\ pc[e] = "loop"
    /\ idx[e] < Len(ParseWorkflow(execWf[e]).steps)

\* C30: a runner that finds the scope of its execution fired at a step
\* boundary starts neither that step nor a later one (no step record, no
\* step.started event, no executor call) and leaves the execution cancelled,
\* with the tracker's call stack and its rendering on the execution record.
C30_Step ==
    \A e \in ExecIDs :
        (AtStepBoundary(e) /\ ctxDone[e] /\ pc'[e] # pc[e]) =>
            /\ pc'[e] = "exit"
            /\ execMem'[e].status = "cancelled"
            /\ UNCHANGED << dbSteps, published, xstack, xres >>

C30_Inv ==
    \A e \in ExecIDs :
        (pc[e] \in RunnerReturned /\ execMem[e].status = "cancelled") =>
            /\ \A k \in 1..Len(dbSteps[e]) : dbSteps[e][k].step_index < idx[e]
            /\ \A k \in 1..Len(published[e]) :
                  published[e][k].step_index < idx[e]
            /\ dbExec[e].status = "cancelled"
            /\ dbExec[e].current_step_id =
                   BuildHierarchicalStepID(trackerStack[e])
            /\ dbExec[e].call_stack = trackerStack[e]

C30_CancelledAtBoundary == [](C30_Inv) /\ [][C30_Step]_vars

\* C31: an event is in the durable event log of its execution before it is
\* broadcast: whatever a subscriber of an execution has received is a row of
\* execution_events of that execution (the log keeps the order of
\* publication, and so does the channel).
C31_ReceivedIsDurable ==
    \A c \in ChanIDs :
        (chanState[c] = "open" /\ recvIndex[c] > 0) =>
            InSeq(published[chanExec[c]][recvIndex[c]],
                  dbEvents[chanExec[c]])

\* what the steps k..upto of a workflow return when each of them succeeds
\* and gets the output of the one before it, the first of them input; d
\* bounds the nesting of workflow steps
RECURSIVE ThreadTo(_, _, _, _, _)
ThreadTo(steps, k, upto, input, d) ==
    IF k > upto \/ d = 0
    THEN input
    ELSE LET step == steps[k]
             out == CASE step.type = "device" -> step.result
                      [] step.type = "wait" -> input
                      [] OTHER ->
                           LET sub == ParseWorkflow(step.workflow_id).steps
                           IN ThreadTo(sub, 1, Len(sub), input, d - 1)
         IN ThreadTo(steps, k + 1, upto, out, d)

\* the input executeWorkflowStep number k of the nesting was called with
EntryInput(e, k) == IF k = 1 THEN StepInput(e) ELSE xstack[e][k - 1].input

\* C32: a workflow step runs the steps of its sub-workflow in order; the
\* first inner step gets the input of the outer step and every later one the
\* output of the inner step before it; the outer step returns the output of
\* the last inner step (its own input when there is none).  When an inner
\* step fails no later inner step runs and the outer step fails with an error
\* that names the index and the name of that inner step.
C32_Inv ==
    \A e \in ExecIDs :
        /\ \A k \in 1..Len(xstack[e]) :
              LET f == xstack[e][k]
              IN /\ f.i <= Len(ParseWorkflow(f.wf).steps)
                 /\ f.input = ThreadTo(ParseWorkflow(f.wf).steps, 1, f.i,
                                       EntryInput(e, k), MaxDepth + 1)
        /\ (pc[e] = "stepend" /\ xres[e].state = "ok"
               /\ CurrentStep(e).type = "workflow") =>
              LET sub == ParseWorkflow(CurrentStep(e).workflow_id).steps
              IN xres[e].output =
                     ThreadTo(sub, 1, Len(sub), StepInput(e), MaxDepth + 1)

C32_Step ==
    \A e \in ExecIDs :
        LET n == Len(xstack[e])
        IN /\ (pc[e] = "executing" /\ Len(xstack'[e]) = n + 1) =>
                xstack'[e][n + 1] =
                    [wf |-> ExecutorStep(e).workflow_id, i |-> 0,
                     input |-> ExecutorInput(e)]
           /\ (pc[e] = "executing" /\ n > 0 /\ Len(xstack'[e]) = n
                  /\ xstack'[e] # xstack[e]) =>
                /\ xstack'[e][n].i = xstack[e][n].i + 1
                /\ \A k \in 1..(n - 1) : xstack'[e][k] = xstack[e][k]
           /\ (pc[e] = "executing" /\ n > 0 /\ xres'[e].state = "err") =>
                /\ xstack'[e] = << >>
                /\ pc'[e] = "stepend"
                /\ Len(xres'[e].error) = n + 1
                /\ \A k \in 1..n :
                      xres'[e].error[k] =
                          [msg |-> "sub-workflow step failed",
                           idx |-> xstack[e][k].i,
                           name |-> ParseWorkflow(xstack[e][k].wf)
                                       .steps[xstack[e][k].i + 1].name]

C32_SubWorkflowThreads == [](C32_Inv) /\ [][C32_Step]_vars

\* the workflow step of wOuter has returned the output of the last step of
\* wSub, which got it from the first
C32_Witness ==
    \E e \in ExecIDs :
        /\ pc[e] = "stepend"
        /\ xres[e] = OkResult("r3")
        /\ CurrentStep(e).type = "workflow"
        /\ CurrentStep(e).workflow_id = "wSub"
        /\ StepInput(e) # "r3"

\* C33: the controller state is written by an observer, or by a command
\* handler whose engine call failed, only while the command it belongs to is
\* the one that changed the state last; after a reset or another accepted
\* command the observers and handlers of earlier commands leave the state
\* alone.
C33_Step ==
    /\ \A e \in MachineExecIDs :
          (monPc[e] \in {"watch", "polled"} /\ monPc'[e] = "done"
              /\ currentState' # currentState) => cycleOwner = e
    /\ \A h \in Handlers :
          (hpc[h] = "failed" /\ hpc'[h] = "idle"
              /\ currentState' # currentState) => cycleOwner = -h

C33_ObserverOwnsCycle == [][C33_Step]_vars

\* C34: a controller that is homing or stopping while the execution its
\* observer watches has come to a terminal status (success, failed or
\* cancelled) leaves homing/stopping in the end, for a state that accepts
\* some command.
C34_LeavesHomingAndStopping ==
    \A e \in MachineExecIDs :
        (/\ currentState \in {"homing", "stopping"}
         /\ monPc[e] = "watch"
         /\ currentExecID = e
         /\ execMem[e].status \in TerminalStatus)
            ~> (currentState \in {"stopped", "ready", "running", "error"})

\* C35: while the controller reports stopped after an accepted stop command
\* (no command has changed the state since), no execution of the production
\* workflow is in the engine's running table.
C35_StoppedMeansNoProduction ==
    (/\ currentState = "stopped"
     /\ cycleOwner > 0
     /\ execWf[cycleOwner] = stopWorkflowID) =>
        \A e \in MachineExecIDs :
            execWf[e] = productionWorkflowID => e \notin runningContexts

\* the state in which a command is accepted
SourceState(cmd) ==
    CASE cmd = "home"  -> "stopped"
      [] cmd = "start" -> "ready"
      [] OTHER         -> "running"

\* ExecuteCommand call h is a command of kind cmd
Issues(h, cmd) ==
    CASE cmd = "home"  -> executeHome(h)
      [] cmd = "start" -> executeStart(h)
      [] OTHER         -> executeStop(h)

\* a command issued now is accepted in its source state and rejected in any
\* other state
C36_Gate ==
    \A h \in Handlers, cmd \in {"home", "start", "stop"} :
        (Arrives(h) /\ mu = 0) =>
            /\ (ENABLED (Issues(h, cmd) /\ hcmd'[h] = cmd))
                    <=> currentState = SourceState(cmd)
            /\ (ENABLED (Issues(h, cmd) /\ ret' = Rejected(cmd)))
                    <=> currentState # SourceState(cmd)

\* the critical section that accepts a command takes the controller out of
\* the command's source state, so that of the commands of one kind issued in
\* one stay in the source state one is accepted
C36_GateStep ==
    /\ \A h \in Handlers, cmd \in {"home", "start", "stop"} :
          Accepts(h, cmd) =>
              /\ currentState = SourceState(cmd)
              /\ mu = 0
              /\ currentState' # SourceState(cmd) \/ mu' = h
    /\ (mu # 0 /\ mu' = 0) => currentState' # currentState

\* the engine call of an accepted command that returns an id has created one
\* execution, of the command's workflow, and the handler then starts one
\* observer, of that execution; nothing else creates an execution or starts
\* an observer
C36_StartStep ==
    /\ \A h \in Handlers :
          /\ (hpc[h] = "exec" /\ hpc'[h] = "created") =>
                /\ nextExec' = nextExec + 1
                /\ hexec'[h] = nextExec
                /\ execWf'[nextExec] = CommandWorkflow(hcmd[h])
                /\ nextExec \notin runningContexts
                /\ runningContexts' = runningContexts \cup {nextExec}
                /\ monPc' = monPc
          /\ (hpc[h] = "created" /\ hpc'[h] = "idle") =>
                /\ monPc[hexec[h]] = "none"
                /\ monPc'[hexec[h]] \in {"tick", "watch"}
                /\ \A e \in MachineExecIDs \ {hexec[h]} : monPc'[e] = monPc[e]
                /\ nextExec' = nextExec
    /\ nextExec' # nextExec =>
          \E h \in Handlers : hpc[h] = "exec" /\ hpc'[h] = "created"
    /\ \A e \in MachineExecIDs :
          (monPc[e] = "none" /\ monPc'[e] # "none") =>
              \E h \in Handlers :
                  hpc[h] = "created" /\ hexec[h] = e /\ hpc'[h] = "idle"

\* the call of an accepted command ends by starting the observer
C36_EveryAcceptedStarts ==
    \A h \in Handlers :
        (hpc[h] # "idle" /\ hpc'[h] = "idle") => hpc[h] = "created"

\* the engine call of an accepted command that returns an error starts no
\* execution and no observer, and the handler sets error
C36_FailedStep ==
    \A h \in Handlers :
        /\ (hpc[h] = "exec" /\ hpc'[h] = "failed") =>
              UNCHANGED << nextExec, runningContexts, monPc >>
        /\ (hpc[h] = "failed" /\ hpc'[h] = "idle") =>
              /\ UNCHANGED << nextExec, runningContexts, monPc >>
              /\ currentState' = "error"

\* C36: of the commands of one kind (home, start or stop) issued while the
\* controller is in the command's source state, one is accepted and the
\* others are rejected: a command is accepted exactly in its source state,
\* and accepting it leaves that state in the same critical section.  Each
\* accepted command whose engine call returns an id starts one execution and
\* one observer; one whose engine call returns an error starts neither and
\* sets error.
C36_OneAcceptedOneObserver ==
    []C36_Gate /\ [][C36_GateStep /\ C36_StartStep /\ C36_FailedStep]_vars

\* C36 as stated: every accepted command starts one execution and one
\* observer
C36_AsStated ==
    []C36_Gate
        /\ [][C36_GateStep /\ C36_StartStep /\ C36_EveryAcceptedStarts]_vars

\* a start is rejected while the call of the accepted start stands between
\* the engine call, which has created the production execution, and the
\* start of the observer
C36_Witness ==
    /\ ret = Rejected("start")
    /\ currentState = "running"
    /\ \E h \in Handlers :
          /\ hcmd[h] = "start"
          /\ hpc[h] = "created"
          /\ execWf[hexec[h]] = productionWorkflowID
          /\ monPc[hexec[h]] = "none"

\* C37: when no cancel is issued and every device call and wait returns,
\* every execution in the running table comes to a terminal status and
\* leaves the running table, whatever the stored workflow it runs.
C37_EveryExecutionEnds ==
    \A e \in ExecIDs :
        (e \in runningContexts)
            ~> (execMem[e].status \in TerminalStatus /\ e \notin runningContexts)

\* the same for the executions of workflows whose workflow steps lead to no
\* cycle
C37_AcyclicExecutionEnds ==
    \A e \in ExecIDs :
        (e \in runningContexts /\ execWf[e] # "wRec")
            ~> (execMem[e].status \in TerminalStatus /\ e \notin runningContexts)

\* every handle in a subscriber list is open, and is in one list, once
C38_ListedIsOpen ==
    \A e \in ExecIDs :
        \A k \in 1..Len(subscribers[e]) :
            /\ chanState[subscribers[e][k]] = "open"
            /\ \A f \in ExecIDs :
                  \A m \in 1..Len(subscribers[f]) :
                      subscribers[f][m] = subscribers[e][k] =>
                          f = e /\ m = k

C38_Step ==
    \A c \in ChanIDs :
        /\ Len(chanBuf'[c]) > Len(chanBuf[c]) =>
              chanState[c] = "open" /\ chanState'[c] = "open"
        /\ chanState[c] = "closed" =>
              chanState'[c] = "closed" /\ chanBuf'[c] = chanBuf[c]
        /\ \A e \in ExecIDs :
              (Unsubscribe(e, c) /\ chanState[c] = "closed") =>
                  UNCHANGED streamVars

\* C38: whatever the order of the subscribe, unsubscribe and broadcast
\* calls (each one critical section of the streamer's lock), an event is
\* sent only on an open channel, a closed channel is never closed again, and
\* once unsubscribe has closed a handle no broadcast delivers to it.
C38_NoSendAfterClose == [](C38_ListedIsOpen) /\ [][C38_Step]_vars

\* an event was broadcast after a handle had been closed: the handle got
\* nothing, and a second subscriber of the execution holds the event
C38_Witness ==
    \E c1, c2 \in ChanIDs :
        LET e == chanExec[c1]
        IN /\ chanState[c1] = "closed"
           /\ closedAt[c1] >= 0
           /\ Len(published[e]) > closedAt[c1]
           /\ chanBuf[c1] = << >>
           /\ chanState[c2] = "open"
           /\ InSeq(c2, subscribers[e])
           /\ Len(chanBuf[c2]) > 0
           /\ chanBuf[c2][Len(chanBuf[c2])] = published[e][Len(published[e])]

\* the workflows validateWorkflow is entered for in this step
Entered ==
    { validated'[k] : k \in (Len(validated) + 1)..Len(validated') }

\* the walk enters one workflow at a time, and none that is on the path,
\* done, or entered before in this call
C39_EnterStep ==
    (Len(validated') > Len(validated) /\ valPc = "walking") =>
        /\ Len(validated') = Len(validated) + 1
        /\ \A w \in Entered :
              /\ w \notin walkVisiting
              /\ w \notin walkDone
              /\ ~InSeq(w, validated)
              /\ w \in DOMAIN valStore

\* some step of a walk that has not returned to ValidateByID, with the
\* storage working
WalkStep ==
    \/ validateDeviceStep("none")
    \/ validateOtherStep
    \/ validateSubWorkflowStep("none")
    \/ walkReturn

RECURSIVE SumOver(_, _)
SumOver(f, S) ==
    IF S = {} THEN 0
    ELSE LET x == CHOOSE y \in S : TRUE
         IN f[x] + SumOver(f, S \ {x})

\* the steps a call can still take: for every stored workflow not entered
\* yet its loop iterations, its entry and its return; for every workflow on
\* the path the loop iterations left and its return; and the final return
StepsLeft ==
    LET unentered == { w \in DOMAIN valStore : ~InSeq(w, validated) }
        whole == [w \in unentered |-> Len(StepsOf(w)) + 2]
        frames == [k \in 1..Len(walkStack) |->
                      Len(StepsOf(walkStack[k])) - walkIdx[k] + 1]
    IN  SumOver(whole, unentered) + SumOver(frames, 1..Len(walkStack))
            + (IF valPc = "walking" THEN 1 ELSE 0)

\* the path holds no workflow twice and holds the workflows being visited;
\* a walk that has not returned to ValidateByID (which then finalizes the
\* report and returns) can take a step
C39_PathInv ==
    /\ \A j, k \in 1..Len(walkStack) : j # k => walkStack[j] # walkStack[k]
    /\ { walkStack[k] : k \in 1..Len(walkStack) } = walkVisiting
    /\ walkVisiting \cap walkDone = {}
    /\ StepsLeft >= 0
    /\ (valPc = "walking" /\ walkStack # << >>) => ENABLED WalkStep

\* every step of a call that has not returned uses up one of the steps left
C39_VariantStep == (valPc = "walking") => StepsLeft' < StepsLeft

\* C39: a ValidateByID call returns, whatever the stored graph, cycles and
\* self-references included: the walk enters no workflow that is on its
\* path or done, so it enters each stored workflow at most once, and every
\* step it takes brings it closer to the return.
C39_ValidateByIDTerminates ==
    [](C39_PathInv) /\ [][C39_EnterStep /\ C39_VariantStep]_vars

\* the call has returned its report for a graph in which A references B,
\* B references itself and C, and C references A, each entered once
C39_Witness ==
    /\ valPc = "returned"
    /\ valRet = "report"
    /\ valRoot = "A"
    /\ "B" \in References("A")
    /\ {"B", "C"} \subseteq References("B")
    /\ "A" \in References("C")
    /\ validated = << "A", "B", "C" >>

\* the workflow id an issue about a workflow reference is about: the id the
\* step holds when the issue is tagged with a step, else the issue's own id
ReferencedID(issue) ==
    IF issue.step_index >= 0
    THEN StepsOf(issue.workflow_id)[issue.step_index + 1].workflow_id
    ELSE issue.workflow_id

\* C40: every WORKFLOW_003 issue of the report is about a workflow id that
\* is not in storage; a referenced workflow that is stored with a definition
\* that does not parse gets WORKFLOW_900 and no WORKFLOW_003.
C40_NotFoundMeansAbsent ==
    \A k \in 1..Len(report.errors) :
        report.errors[k].code = "WORKFLOW_003" =>
            ReferencedID(report.errors[k]) \notin DOMAIN valStore

====
